---- MODULE Spec2Model ----
(***************************************************************************)
(* A model of the livesync-proxy gateway: the per-client message broker    *)
(* (infrastructure/websocket.rs), the sync coordinator                     *)
(* (application/services.rs), the health monitor and its readers           *)
(* (interfaces/web/health.rs), the HTTP forwarding                         *)
(* (infrastructure/couchdb.rs, interfaces/web/handlers.rs, server.rs) and  *)
(* the document repository (domain/services.rs).                           *)
(***************************************************************************)
EXTENDS Integers, Sequences, FiniteSets, TLC

(***************************************************************************)
(* Bounds of the model and constants of the program.                       *)
(***************************************************************************)
\* broadcast::channel(100) in register_client.
ChannelCapacity == 100

ClientIds == {"c1", "c2"}
Msgs == {"m1", "m2"}
BTasks == {"t1", "t2"}

VARIABLES
    connections,    \* WebSocketBroker.connections: client id -> channel
    btask,          \* the tasks that call the broker directly
    last,           \* the task whose broker call ran last
    before,         \* the registry as that call found it
    broker_impl,    \* the MessageBroker behind LiveSyncService.message_broker
    client_connections, \* LiveSyncService.client_connections
    stask,          \* the tasks running LiveSyncService::handle_message
    databases,      \* the backend: database name -> (document id -> revision)
    hs,             \* HealthState and the position of its background loop
    hist,           \* what the health loop has done: streak and last interval
    config,         \* the backend credentials the client and the handlers hold
    gw,             \* the HTTP request being forwarded and where its handler is
    request_counts, \* MetricsState.request_counts
    readers,        \* the tasks that read HealthState while its loop runs
    repo            \* a CouchDbRepository, its documents and its last call

brokerVars == <<connections, btask, last, before>>

serviceVars == <<broker_impl, client_connections, stask, databases>>

healthVars == <<hs, hist>>

gatewayVars == <<config, gw, request_counts>>

readerVars == <<readers>>

repoVars == <<repo>>

vars == <<connections, btask, last, before, broker_impl,
          client_connections, stask, databases, hs, hist,
          config, gw, request_counts, readers, repo>>

(***************************************************************************)
(* tokio::sync::broadcast, as far as the broker uses it.  A channel is its *)
(* creator (which tells one channel of an id from the next), the number of *)
(* live receivers and the values not yet received.                         *)
(***************************************************************************)
\* A channel that starts with a value sent earlier still in it.
NewChannelWithBacklog(owner) == [owner |-> owner, rx_cnt |-> 1, queue |-> <<"m1">>]

\* broadcast::channel(capacity) returns a sender and one receiver.
NewChannel(owner) == [owner |-> owner, rx_cnt |-> 1, queue |-> <<>>]

\* Dropping a receiver: `let (tx, _) = broadcast::channel(..)`.
DropReceiver(ch) == [ch EXCEPT !.rx_cnt = @ - 1]

\* Sender::send fails exactly when no receiver is alive; a full ring buffer
\* overwrites its oldest value and never fails.
ChannelSend(ch, m) ==
    IF ch.rx_cnt = 0
    THEN [ok |-> FALSE, ch |-> ch]
    ELSE [ok |-> TRUE,
          ch |-> [ch EXCEPT !.queue =
                    IF Len(@) >= ChannelCapacity
                    THEN Append(Tail(@), m)
                    ELSE Append(@, m)]]

\* HashMap::insert and HashMap::remove.
MapInsert(map, k, v) == [x \in (DOMAIN map) \cup {k} |-> IF x = k THEN v ELSE map[x]]

MapRemove(map, k) == [x \in (DOMAIN map) \ {k} |-> map[x]]

EmptyMap == [x \in {} |-> 0]

(***************************************************************************)
(* WebSocketBroker: each operation runs under the registry lock, so its    *)
(* body is one step.  An operation maps the registry to a result and the   *)
(* registry it leaves.                                                     *)
(***************************************************************************)
register_client_overwrites(conns, owner, client_id) ==
    [res |-> "Ok",
     connections |-> MapInsert(conns, client_id, DropReceiver(NewChannel(owner)))]

register_client(conns, owner, client_id) ==
    IF client_id \in DOMAIN conns
    THEN [res |-> "AlreadyRegistered", connections |-> conns]
    ELSE [res |-> "Ok",
          connections |-> MapInsert(conns, client_id, DropReceiver(NewChannel(owner)))]

unregister_client_ignores_missing(conns, client_id) ==
    [res |-> "Ok", connections |-> MapRemove(conns, client_id)]

unregister_client(conns, client_id) ==
    IF client_id \notin DOMAIN conns
    THEN [res |-> "NotFound", connections |-> conns]
    ELSE [res |-> "Ok", connections |-> MapRemove(conns, client_id)]

send_message_discards_error(conns, client_id, message) ==
    IF client_id \in DOMAIN conns
    THEN [res |-> "Ok",
          connections |->
              [conns EXCEPT ![client_id] = ChannelSend(conns[client_id], message).ch]]
    ELSE [res |-> "NotFound", connections |-> conns]

send_message(conns, client_id, message) ==
    IF client_id \in DOMAIN conns
    THEN LET sent == ChannelSend(conns[client_id], message)
         IN  IF sent.ok
             THEN [res |-> "Ok",
                   connections |-> [conns EXCEPT ![client_id] = sent.ch]]
             ELSE [res |-> "SendFailed", connections |-> conns]
    ELSE [res |-> "NotFound", connections |-> conns]

\* The loop visits every entry; the errors it collects are a set here, the
\* HashMap's iteration order being arbitrary.
broadcast_message(conns, message) ==
    LET errors == {id \in DOMAIN conns : ~ChannelSend(conns[id], message).ok}
    IN  [res |-> IF errors = {} THEN "Ok" ELSE "BroadcastFailed",
         errors |-> errors,
         connections |-> [id \in DOMAIN conns |-> ChannelSend(conns[id], message).ch]]

(***************************************************************************)
(* Tasks calling the broker: a call is issued (the task waits for the      *)
(* lock), then runs.                                                       *)
(***************************************************************************)
IdleTask == [pc |-> "idle", op |-> "none", id |-> "none", msg |-> "none",
             res |-> "none", errors |-> {}, race |-> {}, unreg |-> FALSE]

InFlight(t, op, id) == btask[t].pc = "called" /\ btask[t].op = op /\ btask[t].id = id

\* The tasks t races with: those waiting to register the same unregistered id.
Racers(t, id) == IF id \in DOMAIN connections THEN {}
                 ELSE {u \in BTasks \ {t} : InFlight(u, "register", id) /\ btask[u].unreg}

CallRegister(t, id) ==
    /\ btask[t].pc # "called"
    /\ btask' = [u \in BTasks |->
                    IF u = t
                    THEN [IdleTask EXCEPT !.pc = "called", !.op = "register", !.id = id,
                                          !.race = Racers(t, id),
                                          !.unreg = id \notin DOMAIN connections]
                    ELSE IF u \in Racers(t, id)
                         THEN [btask[u] EXCEPT !.race = @ \cup {t}]
                         ELSE btask[u]]
    /\ UNCHANGED <<connections, last, before>>
    /\ UNCHANGED <<serviceVars, healthVars, gatewayVars, readerVars, repoVars>>

CallOther(t, op, id, m) ==
    /\ btask[t].pc # "called"
    /\ btask' = [btask EXCEPT ![t] =
                    [IdleTask EXCEPT !.pc = "called", !.op = op, !.id = id, !.msg = m]]
    /\ UNCHANGED <<connections, last, before>>
    /\ UNCHANGED <<serviceVars, healthVars, gatewayVars, readerVars, repoVars>>

CallUnregister(t, id) == CallOther(t, "unregister", id, "none")

CallSend(t, id, m) == CallOther(t, "send", id, m)

CallBroadcast(t, m) == CallOther(t, "broadcast", "none", m)

Finish(t, r, errs) ==
    /\ btask' = [btask EXCEPT ![t].pc = "done", ![t].res = r.res, ![t].errors = errs]
    /\ connections' = r.connections
    /\ last' = t
    /\ before' = connections
    /\ UNCHANGED <<serviceVars, healthVars, gatewayVars, readerVars, repoVars>>

ExecRegister(t) ==
    /\ btask[t].pc = "called" /\ btask[t].op = "register"
    /\ Finish(t, register_client(connections, t, btask[t].id), {})

ExecUnregister(t) ==
    /\ btask[t].pc = "called" /\ btask[t].op = "unregister"
    /\ Finish(t, unregister_client(connections, btask[t].id), {})

ExecSend(t) ==
    /\ btask[t].pc = "called" /\ btask[t].op = "send"
    /\ Finish(t, send_message(connections, btask[t].id, btask[t].msg), {})

ExecBroadcast(t) ==
    /\ btask[t].pc = "called" /\ btask[t].op = "broadcast"
    /\ LET r == broadcast_message(connections, btask[t].msg)
       IN  Finish(t, r, r.errors)

(***************************************************************************)
(* serde_json::Value, as far as the coordinator reads it.                  *)
(***************************************************************************)
Null == [null |-> TRUE]

Str(s) == [str |-> s]

Num(n) == [num |-> n]

Obj(f) == [obj |-> f]

IsNull(val) == "null" \in DOMAIN val

IsStr(val) == "str" \in DOMAIN val

IsObj(val) == "obj" \in DOMAIN val

None == [none |-> TRUE]

Some(x) == [some |-> x]

IsSome(opt) == "some" \in DOMAIN opt

\* value[key]: Null when value is no object or has no such key.
Index(val, key) == IF IsObj(val) /\ key \in DOMAIN val.obj THEN val.obj[key] ELSE Null

as_str(val) == IF IsStr(val) THEN Some(val.str) ELSE None

as_object(val) == IF IsObj(val) THEN Some(val.obj) ELSE None

\* serde_json::from_value::<CouchDbDocument>: `_id` is a required string,
\* `_rev` an optional one, every other key is flattened into `data`.
from_value_requires_nothing(val) ==
    [ok |-> TRUE,
     doc |-> [id |-> IF IsStr(Index(val, "_id")) THEN Index(val, "_id").str ELSE "",
              rev |-> None,
              data |-> Null]]

from_value(val) ==
    IF ~IsObj(val) THEN [ok |-> FALSE]
    ELSE IF ~IsStr(Index(val, "_id")) THEN [ok |-> FALSE]
    ELSE IF ~(IsNull(Index(val, "_rev")) \/ IsStr(Index(val, "_rev"))) THEN [ok |-> FALSE]
    ELSE [ok |-> TRUE,
          doc |-> [id |-> Index(val, "_id").str,
                   rev |-> as_str(Index(val, "_rev")),
                   data |-> Obj([k \in (DOMAIN val.obj) \ {"_id", "_rev"} |-> val.obj[k]])]]

(***************************************************************************)
(* The backend behind CouchDbClient: each request either fails in          *)
(* transport or is answered with a status that the client maps to a        *)
(* result.                                                                 *)
(***************************************************************************)
\* database_exists: HEAD /{db}; Ok(status == 200), Err on a transport error.
database_exists(dbs, db_name) ==
    {[res |-> "Ok", exists |-> db_name \in DOMAIN dbs], [res |-> "Err", exists |-> FALSE]}

\* A client to which "already exists" is a failure like any other status.
create_database_rejects_existing(dbs, db_name) ==
    { IF db_name \in DOMAIN dbs
      THEN [res |-> "Err", status |-> 412, databases |-> dbs]
      ELSE [res |-> "Ok", status |-> 201, databases |-> MapInsert(dbs, db_name, EmptyMap)],
      [res |-> "Err", status |-> 500, databases |-> dbs] }

\* create_database: PUT /{db}; 201 and 412 are success, anything else fails.
create_database(dbs, db_name) ==
    { IF db_name \in DOMAIN dbs
      THEN [res |-> "Ok", status |-> 412, databases |-> dbs]
      ELSE [res |-> "Ok", status |-> 201, databases |-> MapInsert(dbs, db_name, EmptyMap)],
      [res |-> "Err", status |-> 500, databases |-> dbs] }

\* save_document: PUT /{db}/{id}; a success status carries the new rev, and
\* the document is returned with it.
save_document(dbs, db_name, doc) ==
    { IF db_name \notin DOMAIN dbs
      THEN [res |-> "CouchDbError", status |-> 404, databases |-> dbs]
      ELSE IF doc.id \in DOMAIN dbs[db_name] /\ doc.rev # Some(dbs[db_name][doc.id])
      THEN [res |-> "CouchDbError", status |-> 409, databases |-> dbs]
      ELSE [res |-> "Ok", status |-> 201,
            databases |-> [dbs EXCEPT ![db_name] = MapInsert(@, doc.id, "1-abc")],
            doc |-> [doc EXCEPT !.rev = Some("1-abc")]],
      [res |-> "CouchDbError", status |-> 0, databases |-> dbs] }

(***************************************************************************)
(* The MessageBroker the coordinator holds: the WebSocketBroker above, or  *)
(* a mock of the trait, whose calls answer as the test sets them.          *)
(***************************************************************************)
BrokerImpls == {"WebSocketBroker", "Mock"}

MockAnswers(results) == {[res |-> r, connections |-> connections] : r \in results}

BrokerRegister(owner, id) ==
    IF broker_impl = "WebSocketBroker"
    THEN {register_client(connections, owner, id)}
    ELSE MockAnswers({"Ok", "AlreadyRegistered"})

BrokerSend(id, m) ==
    IF broker_impl = "WebSocketBroker"
    THEN {send_message(connections, id, m)}
    ELSE MockAnswers({"Ok", "SendFailed", "NotFound"})

BrokerUnregister(id) ==
    IF broker_impl = "WebSocketBroker"
    THEN {unregister_client(connections, id)}
    ELSE MockAnswers({"Ok", "NotFound"})

(***************************************************************************)
(* LiveSyncService.  A handler runs from one await to the next in a step.  *)
(***************************************************************************)
STasks == {"s1", "s2"}

DbNames == {"notes"}

DocGood == Obj([_id |-> Str("n1"), content |-> Str("hi")])

DocNoId == Obj([content |-> Str("hi")])

SyncPayloads ==
    { Obj([database |-> Str("notes"), document |-> DocGood]),
      Obj([document |-> DocGood]),
      Obj([database |-> Num("1"), document |-> DocGood]),
      Obj([database |-> Str("notes")]),
      Obj([database |-> Str("notes"), document |-> Str("n1")]),
      Obj([database |-> Str("notes"), document |-> DocNoId]) }

ConnectionPayloads == { Obj([client |-> Str("test-client")]) }

IdleSTask == [pc |-> "idle", kind |-> "none", client |-> "none", payload |-> Null,
              result |-> "none", calls |-> <<>>, db |-> "none", doc |-> Null,
              repl |-> Null, created |-> 0]

\* The acknowledgement and the confirmation the handlers build (the uuid and
\* the server time left out).
ConnectionAck(client_id) ==
    [message_type |-> "Connection",
     payload |-> Obj([status |-> Str("connected"), client_id |-> Str(client_id)])]

SyncReply(saved_doc) ==
    [message_type |-> "Sync",
     payload |-> Obj([status |-> Str("success"),
                      document_id |-> Str(saved_doc.id),
                      rev |-> IF IsSome(saved_doc.rev) THEN Str(saved_doc.rev.some) ELSE Null])]

Call(name, arg, res) == [fn |-> name, arg |-> arg, res |-> res]

\* A handler returns: its locals are gone; its result, its calls, what
\* replicate gave it and the status that answered its create_database (0
\* when it made no such request) remain.
Return(s, result, calls) ==
    [stask EXCEPT ![s].pc = "done", ![s].result = result, ![s].calls = calls,
                  ![s].db = "none", ![s].doc = Null]

\* handle_message: the dispatch on message_type.
handle_message(s, client_id, message) ==
    /\ stask[s].pc \in {"idle", "done"}
    /\ stask' = [stask EXCEPT ![s] =
                    [IdleSTask EXCEPT
                        !.pc = CASE message.message_type = "Connection" -> "conn_register"
                                 [] message.message_type = "Sync" -> "sync_begin"
                                 [] message.message_type = "Replicate" -> "repl_begin"
                                 [] message.message_type = "Heartbeat" -> "done"
                                 [] message.message_type = "Error" -> "error",
                        !.result = IF message.message_type = "Heartbeat" THEN "Ok" ELSE "none",
                        !.kind = message.message_type,
                        !.client = client_id,
                        !.payload = message.payload]]
    /\ UNCHANGED <<broker_impl, client_connections, databases, brokerVars, healthVars, gatewayVars, readerVars, repoVars>>

\* A coordinator that goes on to the acknowledgement whatever the registration
\* returned.
handle_connection_register_swallows_error(s) ==
    /\ stask[s].pc = "conn_register"
    /\ \E r \in BrokerRegister(s, stask[s].client) :
          /\ connections' = r.connections
          /\ stask' = [stask EXCEPT ![s].pc = "conn_track",
                                    ![s].calls = Append(@, Call("register_client",
                                                                <<stask[s].client>>, r.res))]
    /\ UNCHANGED <<broker_impl, client_connections, databases, btask, last, before, healthVars, gatewayVars, readerVars, repoVars>>

\* handle_connection up to the tracking list: register_client(..).await?
handle_connection_register(s) ==
    /\ stask[s].pc = "conn_register"
    /\ \E r \in BrokerRegister(s, stask[s].client) :
          /\ connections' = r.connections
          /\ LET calls == Append(stask[s].calls, Call("register_client", <<stask[s].client>>, r.res))
             IN  stask' = IF r.res = "Ok"
                          THEN [stask EXCEPT ![s].pc = "conn_track", ![s].calls = calls]
                          ELSE Return(s, "WebSocketError", calls)
    /\ UNCHANGED <<broker_impl, client_connections, databases, btask, last, before, healthVars, gatewayVars, readerVars, repoVars>>

\* The block under client_connections.write().
handle_connection_track(s) ==
    /\ stask[s].pc = "conn_track"
    /\ client_connections' =
          IF \E i \in 1..Len(client_connections) : client_connections[i] = stask[s].client
          THEN client_connections
          ELSE Append(client_connections, stask[s].client)
    /\ stask' = [stask EXCEPT ![s].pc = "conn_send"]
    /\ UNCHANGED <<broker_impl, databases, brokerVars, healthVars, gatewayVars, readerVars, repoVars>>

\* The acknowledgement: send_message(client_id, response).await is the result.
handle_connection_send(s) ==
    /\ stask[s].pc = "conn_send"
    /\ \E r \in BrokerSend(stask[s].client, ConnectionAck(stask[s].client)) :
          /\ connections' = r.connections
          /\ stask' = Return(s, IF r.res = "Ok" THEN "Ok" ELSE "WebSocketError",
                             Append(stask[s].calls,
                                    Call("send_message",
                                         <<stask[s].client, ConnectionAck(stask[s].client)>>,
                                         r.res)))
    /\ UNCHANGED <<broker_impl, client_connections, databases, btask, last,
                   before, healthVars, gatewayVars, readerVars, repoVars>>

\* A coordinator that ends the session of a client whose Sync names no
\* database.
handle_sync_begin_drops_client(s) ==
    /\ stask[s].pc = "sync_begin"
    /\ LET db_name == as_str(Index(stask[s].payload, "database"))
       IN  /\ stask' = IF IsSome(db_name)
                       THEN [stask EXCEPT ![s].pc = "ensure_exists", ![s].db = db_name.some]
                       ELSE Return(s, "InvalidMessage", stask[s].calls)
           /\ connections' = IF IsSome(db_name) THEN connections
                             ELSE MapRemove(connections, stask[s].client)
    /\ UNCHANGED <<broker_impl, client_connections, databases, btask, last, before,
                   healthVars, gatewayVars, readerVars, repoVars>>

\* handle_sync up to ensure_database: the database name is read first.
handle_sync_begin(s) ==
    /\ stask[s].pc = "sync_begin"
    /\ LET db_name == as_str(Index(stask[s].payload, "database"))
       IN  stask' = IF IsSome(db_name)
                    THEN [stask EXCEPT ![s].pc = "ensure_exists", ![s].db = db_name.some]
                    ELSE Return(s, "InvalidMessage", stask[s].calls)
    /\ UNCHANGED <<broker_impl, client_connections, databases, brokerVars, healthVars, gatewayVars, readerVars, repoVars>>

\* A handler to which a Sync without a document object is malformed.
AfterEnsureRequiresDocument(s, calls) ==
    LET parsed == from_value(Index(stask[s].payload, "document"))
    IN  IF parsed.ok
        THEN [stask EXCEPT ![s].pc = "sync_save", ![s].calls = calls, ![s].doc = parsed.doc]
        ELSE Return(s, "InvalidMessage", calls)

\* What handle_sync does once ensure_database has returned Ok: the document,
\* when there is one, is deserialized before save_document is awaited.
AfterEnsure(s, calls) ==
    IF ~IsSome(as_object(Index(stask[s].payload, "document")))
    THEN Return(s, "Ok", calls)
    ELSE LET parsed == from_value(Index(stask[s].payload, "document"))
         IN  IF parsed.ok
             THEN [stask EXCEPT ![s].pc = "sync_save", ![s].calls = calls,
                                ![s].doc = parsed.doc]
             ELSE Return(s, "InvalidMessage", calls)

\* ensure_database: database_exists(db).await
ensure_database_exists(s) ==
    /\ stask[s].pc = "ensure_exists"
    /\ \E r \in database_exists(databases, stask[s].db) :
          stask' = IF r.res = "Err"
                   THEN Return(s, "CouchDbError",
                               Append(stask[s].calls,
                                      Call("ensure_database", <<stask[s].db>>, "CouchDbError")))
                   ELSE IF r.exists
                   THEN AfterEnsure(s, Append(stask[s].calls,
                                              Call("ensure_database", <<stask[s].db>>, "Ok")))
                   ELSE [stask EXCEPT ![s].pc = "ensure_create"]
    /\ UNCHANGED <<broker_impl, client_connections, databases, brokerVars, healthVars, gatewayVars, readerVars, repoVars>>

\* ensure_database: create_database(db).await, when the database was absent.
ensure_database_create(s) ==
    /\ stask[s].pc = "ensure_create"
    /\ \E r \in create_database(databases, stask[s].db) :
          /\ databases' = r.databases
          /\ LET after ==
                  IF r.res = "Ok"
                  THEN AfterEnsure(s, Append(stask[s].calls,
                                             Call("ensure_database", <<stask[s].db>>, "Ok")))
                  ELSE Return(s, "CouchDbError",
                              Append(stask[s].calls,
                                     Call("ensure_database", <<stask[s].db>>, "CouchDbError")))
             IN  stask' = [after EXCEPT ![s].created = r.status]
    /\ UNCHANGED <<broker_impl, client_connections, brokerVars, healthVars, gatewayVars, readerVars, repoVars>>

\* save_document(db_name, document).await?
handle_sync_save(s) ==
    /\ stask[s].pc = "sync_save"
    /\ \E r \in save_document(databases, stask[s].db, stask[s].doc) :
          /\ databases' = r.databases
          /\ LET calls == Append(stask[s].calls,
                                 Call("save_document", <<stask[s].db, stask[s].doc.id>>, r.res))
             IN  stask' = IF r.res = "Ok"
                          THEN [stask EXCEPT ![s].pc = "sync_reply", ![s].calls = calls,
                                             ![s].doc = r.doc]
                          ELSE Return(s, r.res, calls)
    /\ UNCHANGED <<broker_impl, client_connections, brokerVars, healthVars, gatewayVars, readerVars, repoVars>>

\* The confirmation: send_message(client_id, response).await?; Ok(())
handle_sync_reply(s) ==
    /\ stask[s].pc = "sync_reply"
    /\ \E r \in BrokerSend(stask[s].client, SyncReply(stask[s].doc)) :
          /\ connections' = r.connections
          /\ stask' = Return(s, IF r.res = "Ok" THEN "Ok" ELSE "WebSocketError",
                             Append(stask[s].calls,
                                    Call("send_message",
                                         <<stask[s].client, SyncReply(stask[s].doc)>>,
                                         r.res)))
    /\ UNCHANGED <<broker_impl, client_connections, databases, btask, last,
                   before, healthVars, gatewayVars, readerVars, repoVars>>

\* handle_disconnection is called by the transport, not dispatched.
handle_disconnection(s, client_id) ==
    /\ stask[s].pc \in {"idle", "done"}
    /\ stask' = [stask EXCEPT ![s] =
                    [IdleSTask EXCEPT !.pc = "disc_unregister", !.kind = "Disconnection",
                                      !.client = client_id]]
    /\ UNCHANGED <<broker_impl, client_connections, databases, brokerVars, healthVars, gatewayVars, readerVars, repoVars>>

\* unregister_client(client_id).await?
handle_disconnection_unregister(s) ==
    /\ stask[s].pc = "disc_unregister"
    /\ \E r \in BrokerUnregister(stask[s].client) :
          /\ connections' = r.connections
          /\ LET calls == Append(stask[s].calls,
                                 Call("unregister_client", <<stask[s].client>>, r.res))
             IN  stask' = IF r.res = "Ok"
                          THEN [stask EXCEPT ![s].pc = "disc_track", ![s].calls = calls]
                          ELSE Return(s, "WebSocketError", calls)
    /\ UNCHANGED <<broker_impl, client_connections, databases, btask, last,
                   before, healthVars, gatewayVars, readerVars, repoVars>>

\* connections.retain(|id| id != client_id); Ok(())
handle_disconnection_track(s) ==
    /\ stask[s].pc = "disc_track"
    /\ client_connections' = SelectSeq(client_connections, LAMBDA id : id # stask[s].client)
    /\ stask' = Return(s, "Ok", stask[s].calls)
    /\ UNCHANGED <<broker_impl, databases, brokerVars, healthVars, gatewayVars, readerVars, repoVars>>

\* replicate: POST /_replicate with source, target and, when options is an
\* object, its members laid over them; the parsed response on a success
\* status, CouchDbError on a transport failure or any other status,
\* InvalidMessage when the response does not parse.
ReplicationBody(source, target, options) ==
    LET base == [source |-> Str(source), target |-> Str(target)]
    IN  IF IsObj(options)
        THEN Obj([k \in (DOMAIN base) \cup (DOMAIN options.obj) |->
                     IF k \in DOMAIN options.obj THEN options.obj[k] ELSE base[k]])
        ELSE Obj(base)

ReplicationResults ==
    { Obj([ok |-> Str("true"), no_changes |-> Str("true")]),
      Obj([ok |-> Str("true"), session_id |-> Str("s-1")]) }

replicate(source, target, options) ==
    {[res |-> "Ok", value |-> v] : v \in ReplicationResults}
    \cup {[res |-> "CouchDbError", value |-> Null], [res |-> "InvalidMessage", value |-> Null]}

ReplicatePayloads ==
    { Obj([source |-> Str("notes"), target |-> Str("backup")]),
      Obj([source |-> Str("notes"), target |-> Str("backup"),
           options |-> Obj([continuous |-> Str("true")])]),
      Obj([target |-> Str("backup")]),
      Obj([source |-> Str("notes")]),
      Obj([source |-> Num("1"), target |-> Str("backup")]),
      Obj([source |-> Str("notes"), target |-> Null]) }

ErrorPayloads == { Null, Obj([error |-> Str("boom")]) }

ReplicateReply(result) ==
    [message_type |-> "Replicate",
     payload |-> Obj([status |-> Str("success"), result |-> result])]

\* A coordinator that takes a missing source or target for an empty name.
handle_replication_begin_unchecked(s) ==
    /\ stask[s].pc = "repl_begin"
    /\ stask' = [stask EXCEPT ![s].pc = "repl_call"]
    /\ UNCHANGED <<broker_impl, client_connections, databases, brokerVars, healthVars, gatewayVars, readerVars, repoVars>>

\* handle_replication: payload["source"] and payload["target"], each
\* .as_str().ok_or_else(InvalidMessage)?
handle_replication_begin(s) ==
    /\ stask[s].pc = "repl_begin"
    /\ stask' = IF IsStr(Index(stask[s].payload, "source"))
                   /\ IsStr(Index(stask[s].payload, "target"))
                THEN [stask EXCEPT ![s].pc = "repl_call"]
                ELSE Return(s, "InvalidMessage", stask[s].calls)
    /\ UNCHANGED <<broker_impl, client_connections, databases, brokerVars, healthVars, gatewayVars, readerVars, repoVars>>

\* self.couchdb_repo.replicate(source, target, options).await?
handle_replication_replicate(s) ==
    /\ stask[s].pc = "repl_call"
    /\ LET StrOf(val) == IF IsStr(val) THEN val.str ELSE ""
           source == StrOf(Index(stask[s].payload, "source"))
           target == StrOf(Index(stask[s].payload, "target"))
           options == Index(stask[s].payload, "options")
       IN  \E r \in replicate(source, target, options) :
              LET calls == Append(stask[s].calls,
                                  Call("replicate", <<source, target, options>>, r.res))
              IN  stask' = IF r.res = "Ok"
                           THEN [stask EXCEPT ![s].pc = "repl_reply", ![s].calls = calls,
                                              ![s].repl = r.value]
                           ELSE Return(s, r.res, calls)
    /\ UNCHANGED <<broker_impl, client_connections, databases, brokerVars, healthVars, gatewayVars, readerVars, repoVars>>

\* The result: send_message(client_id, response).await is what is returned.
handle_replication_reply(s) ==
    /\ stask[s].pc = "repl_reply"
    /\ \E r \in BrokerSend(stask[s].client, ReplicateReply(stask[s].repl)) :
          /\ connections' = r.connections
          /\ stask' = Return(s, IF r.res = "Ok" THEN "Ok" ELSE "WebSocketError",
                             Append(stask[s].calls,
                                    Call("send_message",
                                         <<stask[s].client, ReplicateReply(stask[s].repl)>>,
                                         r.res)))
    /\ UNCHANGED <<broker_impl, client_connections, databases, btask, last,
                   before, healthVars, gatewayVars, readerVars, repoVars>>

\* A coordinator that answers a reported error.
handle_error_replies(s) ==
    /\ stask[s].pc = "error"
    /\ \E r \in BrokerSend(stask[s].client, [message_type |-> "Error", payload |-> Null]) :
          /\ connections' = r.connections
          /\ stask' = Return(s, "Ok",
                             Append(stask[s].calls,
                                    Call("send_message", <<stask[s].client>>, r.res)))
    /\ UNCHANGED <<broker_impl, client_connections, databases, btask, last,
                   before, healthVars, gatewayVars, readerVars, repoVars>>

\* handle_error: tracing::error!(..); Ok(())
handle_error(s) ==
    /\ stask[s].pc = "error"
    /\ stask' = Return(s, "Ok", stask[s].calls)
    /\ UNCHANGED <<broker_impl, client_connections, databases, brokerVars, healthVars, gatewayVars, readerVars, repoVars>>

(***************************************************************************)
(* u64 arithmetic, kept in eight 8-bit limbs (least significant first) so  *)
(* that overflow is the arithmetic's own.                                  *)
(***************************************************************************)
Limb == 2^8

\* A small natural number as a u64.
U64(n) ==
    [i \in 1..8 |-> IF i <= 3 THEN (n \div (Limb^(i - 1))) % Limb
                    ELSE IF i = 4 THEN n \div (Limb^3)
                    ELSE 0]

\* The sum of the limb products a[i] * b[k - i] of one column.
RECURSIVE ColumnSum(_, _, _, _)
ColumnSum(a, b, k, i) ==
    IF i > 7 \/ i > k THEN 0
    ELSE (IF k - i <= 7 THEN a[i + 1] * b[k - i + 1] ELSE 0) + ColumnSum(a, b, k, i + 1)

\* The sixteen limbs of the full product, column by column with the carry.
RECURSIVE ProductLimbs(_, _, _, _)
ProductLimbs(a, b, k, carry) ==
    IF k > 15 THEN <<>>
    ELSE LET total == ColumnSum(a, b, k, 0) + carry
         IN  <<total % Limb>> \o ProductLimbs(a, b, k + 1, total \div Limb)

\* u64::overflowing_mul: the low 64 bits, and whether the high ones are set.
overflowing_mul(a, b) ==
    LET limbs == ProductLimbs(a, b, 0, 0)
    IN  [val |-> [i \in 1..8 |-> limbs[i]],
         overflow |-> \E i \in 9..16 : limbs[i] # 0]

\* The loop of u64::pow: square the base, multiply it in on the odd bits.
RECURSIVE pow_loop(_, _, _, _)
pow_loop(base, acc, exp, overflow) ==
    IF exp > 1
    THEN LET odd == overflowing_mul(acc, base)
             acc2 == IF exp % 2 = 1 THEN odd ELSE [val |-> acc, overflow |-> FALSE]
             sq == overflowing_mul(base, base)
         IN  pow_loop(sq.val, acc2.val, exp \div 2,
                      overflow \/ acc2.overflow \/ sq.overflow)
    ELSE LET r == overflowing_mul(acc, base)
         IN  [val |-> r.val, overflow |-> overflow \/ r.overflow]

\* u64::pow: the wrapped power, and whether a multiplication overflowed.
u64_pow(base, exp) ==
    IF exp = 0 THEN [val |-> U64(1), overflow |-> FALSE]
    ELSE pow_loop(U64(base), U64(1), exp, FALSE)

\* std::cmp::min(x, y) for a u64 x and a small y.
u64_min(x, y) ==
    IF (\A i \in 3..8 : x[i] = 0) /\ x[1] + Limb * x[2] <= y
    THEN x[1] + Limb * x[2]
    ELSE y

(***************************************************************************)
(* HealthState and its background loop.                                    *)
(***************************************************************************)
\* max_check_interval: Duration::from_secs(300).
MaxCheckIntervalSecs == 300

\* The thresholds of record_couchdb_error.
DegradedThreshold == 3

UnhealthyThreshold == 10

\* Failures counted before the model stops failing probes.
MaxFailures == 66

\* HealthState::new is given the check interval; main passes 30 seconds.
CheckIntervals == {1, 30}

\* 2u64.pow(failures) panics on overflow where overflow checks are compiled
\* in and wraps where they are not.
Builds == {"debug", "release"}

\* The backoff of the failure branch: min(2^failures, max) seconds.
backoff_secs_scaled_by_base(failures, base, max_secs) ==
    u64_min(overflowing_mul(u64_pow(2, failures).val, U64(base)).val, max_secs)

backoff_secs(failures, base, max_secs) == u64_min(u64_pow(2, failures).val, max_secs)

\* record_couchdb_error: the status after the first and the second test of
\* the incremented count.
degraded_after_more_than(errors, status) ==
    IF errors > DegradedThreshold THEN "Degraded" ELSE status

degraded_after(errors, status) ==
    IF errors >= DegradedThreshold THEN "Degraded" ELSE status

unhealthy_after(errors, status) ==
    IF errors >= UnhealthyThreshold THEN "Unhealthy" ELSE status

\* loop { sleep(current_interval).await; ... }: the loop wakes and, with
\* credentials, starts the ping; without, it goes to record the error.
Wake ==
    /\ hs.pc = "sleep"
    /\ hs.auth \/ hs.couchdb_errors < MaxFailures
    /\ hs' = [hs EXCEPT !.pc = IF hs.auth THEN "ping" ELSE "f_update"]
    /\ hist' = IF hs.auth THEN hist ELSE [hist EXCEPT !.last = "no_credentials"]
    /\ UNCHANGED <<brokerVars, serviceVars, gatewayVars, readerVars, repoVars>>

\* Ok(Ok(_)): the counter is reset and the interval is the configured one.
PingOk ==
    /\ hs.pc = "ping"
    /\ hs' = [hs EXCEPT !.pc = "s_update",
                        !.consecutive_failures = 0,
                        !.current_interval = hs.check_interval]
    /\ hist' = [hist EXCEPT !.last = "ok", !.seen = "Healthy"]
    /\ UNCHANGED <<brokerVars, serviceVars, gatewayVars, readerVars, repoVars>>

\* A ping error or the 5 s timeout: the counter is incremented and the next
\* interval computed from it.
PingFailed(outcome) ==
    /\ hs.pc = "ping"
    /\ hs.consecutive_failures < MaxFailures
    /\ LET failures == hs.consecutive_failures + 1
       IN  IF u64_pow(2, failures).overflow /\ hs.build = "debug"
           THEN /\ hs' = [hs EXCEPT !.pc = "panicked", !.consecutive_failures = failures]
                /\ hist' = [hist EXCEPT !.last = "panicked"]
           ELSE /\ hs' = [hs EXCEPT !.pc = "f_update",
                                    !.consecutive_failures = failures,
                                    !.current_interval =
                                        backoff_secs(failures, hs.check_interval,
                                                     MaxCheckIntervalSecs),
                                    !.pending_error = outcome]
                /\ hist' = [hist EXCEPT !.last = "failed",
                                        !.prev = IF hist.last = "failed"
                                                 THEN hs.current_interval ELSE 0]
    /\ UNCHANGED <<brokerVars, serviceVars, gatewayVars, readerVars, repoVars>>

\* update_couchdb_status(available, error_message)
update_couchdb_status ==
    /\ hs.pc \in {"s_update", "f_update"}
    /\ hs' = IF hs.pc = "s_update"
             THEN [hs EXCEPT !.pc = "s_record", !.available = TRUE, !.error_message = "none"]
             ELSE [hs EXCEPT !.pc = "f_record", !.available = FALSE,
                             !.error_message = IF hs.auth THEN hs.pending_error
                                               ELSE "no_credentials"]
    /\ UNCHANGED <<hist, brokerVars, serviceVars, gatewayVars, readerVars, repoVars>>

\* record_couchdb_success: the count is zeroed and the status set Healthy
\* before the count's lock is released.
record_couchdb_success ==
    /\ hs.pc = "s_record"
    /\ hs' = [hs EXCEPT !.pc = "sleep", !.couchdb_errors = 0, !.status = "Healthy"]
    /\ hist' = [hist EXCEPT !.streak = 0]
    /\ UNCHANGED <<brokerVars, serviceVars, gatewayVars, readerVars, repoVars>>

\* record_couchdb_error, to its first set_status: the count is incremented
\* under its write lock, which hides it from readers until the function ends.
record_couchdb_error_degraded ==
    /\ hs.pc = "f_record"
    /\ hs' = [hs EXCEPT !.pc = "f_record2",
                        !.errors_locked = TRUE,
                        !.status = degraded_after(hs.couchdb_errors + 1, hs.status)]
    /\ UNCHANGED <<hist, brokerVars, serviceVars, gatewayVars, readerVars, repoVars>>

\* record_couchdb_error, from its second test to the end.
record_couchdb_error_unhealthy ==
    /\ hs.pc = "f_record2"
    /\ hs' = [hs EXCEPT !.pc = "sleep",
                        !.errors_locked = FALSE,
                        !.couchdb_errors = hs.couchdb_errors + 1,
                        !.status = unhealthy_after(hs.couchdb_errors + 1, hs.status)]
    /\ hist' = [hist EXCEPT !.streak = hist.streak + 1]
    /\ UNCHANGED <<brokerVars, serviceVars, gatewayVars, readerVars, repoVars>>

(***************************************************************************)
(* The readers of HealthState: the /health endpoint and the accessors.     *)
(* Each takes one read lock, so each is a step between two steps of the    *)
(* loop.  A reader keeps what it read last; `state` is the status enum at  *)
(* that instant and `seen_before` the worst status get_status had returned *)
(* in the streak of failed probes under way.                               *)
(***************************************************************************)
Readers == {"h1"}

IdleReader == [op |-> "none", value |-> "none", count |-> 0, state |-> "none",
               seen_before |-> "none"]

\* Healthy < Degraded < Unhealthy
Severity(status) ==
    CASE status = "Healthy" -> 0
      [] status = "Degraded" -> 1
      [] status = "Unhealthy" -> 2

Worse(a, b) == IF Severity(a) >= Severity(b) THEN a ELSE b

\* health_handler: the status string is chosen from couchdb_status.available.
health_handler(available) == IF available THEN "healthy" ELSE "degraded"

\* GET /health
HealthRequest(r) ==
    /\ readers' = [readers EXCEPT ![r] =
                      [IdleReader EXCEPT !.op = "health_handler",
                                         !.value = health_handler(hs.available),
                                         !.state = hs.status]]
    /\ UNCHANGED <<brokerVars, serviceVars, healthVars, gatewayVars, repoVars>>

\* get_status: *self.status.read().await
get_status(r) ==
    /\ readers' = [readers EXCEPT ![r] =
                      [IdleReader EXCEPT !.op = "get_status",
                                         !.value = hs.status,
                                         !.state = hs.status,
                                         !.seen_before = hist.seen]]
    /\ hist' = [hist EXCEPT !.seen = IF hist.last = "ok" THEN @ ELSE Worse(hs.status, @)]
    /\ UNCHANGED <<hs, brokerVars, serviceVars, gatewayVars, repoVars>>

\* get_couchdb_errors: *self.couchdb_errors.read().await, which waits while
\* record_couchdb_error holds the write lock.
get_couchdb_errors(r) ==
    /\ ~hs.errors_locked
    /\ readers' = [readers EXCEPT ![r] =
                      [IdleReader EXCEPT !.op = "get_couchdb_errors",
                                         !.count = hs.couchdb_errors]]
    /\ UNCHANGED <<brokerVars, serviceVars, healthVars, gatewayVars, repoVars>>

(***************************************************************************)
(* The HTTP gateway.  A path is the sequence of its segments, a query the  *)
(* sequence of its parameters, headers a function from lower-case names to *)
(* values.  Two entries forward a request: CouchDbClient's                 *)
(* http_forward_request, and the routed db_proxy_handler, which calls      *)
(* http_proxy_handler.                                                     *)
(***************************************************************************)
\* The timeouts of the clients http_forward_request sends with, and the
\* seconds its 504 body reports.
StandardTimeoutSecs == 60

LongpollTimeoutSecs == 120

ChangesTimeoutSecs == 90

ReportedLongpollSecs == 120

ReportedOtherSecs == 30

\* The caps db_proxy_handler gives to_bytes.
LongpollBufferSize == 1024 * 1024

BulkDocsBufferSize == 20 * 1024 * 1024

DefaultBufferSize == 5 * 1024 * 1024

\* COUCHDB_USER / COUCHDB_PASSWORD: any strings, the empty one included.
Configs == [username : {"", "admin"}, password : {"", "secret"}]

DefaultConfig == [username |-> "admin", password |-> "secret"]

\* general_purpose::STANDARD.encode, on the strings the model encodes.
base64_encode(input) ==
    CASE input = "admin:secret" -> "YWRtaW46c2VjcmV0"
      [] input = "admin:" -> "YWRtaW46"
      [] input = ":secret" -> "OnNlY3JldA=="
      [] input = ":" -> "Og=="

BasicAuth(username, password) == "Basic " \o base64_encode(username \o ":" \o password)

Methods == {"GET", "POST"}

\* The paths axum routes to db_proxy_handler: /db, /db/ and /db/{*path}.
RoutedPaths ==
    { <<"db">>, <<"db", "">>, <<"db", "notes", "n1">>,
      <<"db", "notes", "_changes">>, <<"db", "notes", "_bulk_docs">> }

\* The paths handed to http_forward_request, relative to the base URL.
ForwardPaths ==
    { <<>>, <<"notes", "n1">>, <<"notes", "_changes">>, <<"notes", "_bulk_docs">> }

Queries == { None, Some(<<"feed=longpoll">>), Some(<<"since=0">>) }

InboundHeaders ==
    { [host |-> "proxy.example", x_request |-> "r1"],
      [host |-> "proxy.example", x_request |-> "r1", authorization |-> "Basic Y2xpZW50OnB3"],
      [host |-> "proxy.example", x_request |-> "r1", authorization |-> "Bearer t0k3n"] }

Requests(paths) ==
    [method : Methods, path : paths, query : Queries, headers : InboundHeaders,
     body : {"", "data"}]

NoRequest == [method |-> "none", path |-> <<>>, query |-> None, headers |-> EmptyMap,
              body |-> ""]

NoOutbound == [method |-> "none", base |-> "none", path |-> <<>>, query |-> None,
               headers |-> EmptyMap, body |-> ""]

\* path.contains("/_changes"): a segment that follows a slash.  Every segment
\* of an inbound path does; the first of a relative path does not.
PathContains(path, absolute, segment) ==
    \E i \in 1..Len(path) : path[i] = segment /\ (absolute \/ i > 1)

QueryContains(query, param) ==
    IsSome(query) /\ \E i \in 1..Len(query.some) : query.some[i] = param

IsLongpoll(path, absolute, query) ==
    PathContains(path, absolute, "_changes") /\ QueryContains(query, "feed=longpoll")

IsChangesRequest(path, absolute) == PathContains(path, absolute, "_changes")

IsBulkDocs(path, absolute) == PathContains(path, absolute, "_bulk_docs")

\* The timeout of the client that sends the request.
ClientTimeoutSecs(is_longpoll, is_changes_request) ==
    IF is_longpoll THEN LongpollTimeoutSecs
    ELSE IF is_changes_request THEN ChangesTimeoutSecs
    ELSE StandardTimeoutSecs

\* if is_longpoll { 120 } else { 30 }
ReportedTimeoutSecs(is_longpoll) ==
    IF is_longpoll THEN ReportedLongpollSecs ELSE ReportedOtherSecs

Without(headers, names) == [k \in (DOMAIN headers) \ names |-> headers[k]]

With(headers, name, value) ==
    [k \in (DOMAIN headers) \cup {name} |-> IF k = name THEN value ELSE headers[k]]

\* The request http_forward_request builds: the special headers of a
\* _changes request, basic auth when both credentials are non-empty, then
\* the inbound headers but Host and Authorization, and the body.
EngineOutbound(cfg, req) ==
    LET special == IF IsChangesRequest(req.path, FALSE)
                   THEN [connection |-> "keep-alive", accept |-> "application/json"]
                   ELSE EmptyMap
        authed == IF cfg.username # "" /\ cfg.password # ""
                  THEN With(special, "authorization", BasicAuth(cfg.username, cfg.password))
                  ELSE special
        copied == Without(req.headers, {"host", "authorization"})
    IN  [method |-> req.method, base |-> "couchdb", path |-> req.path, query |-> req.query,
         headers |-> [k \in (DOMAIN authed) \cup (DOMAIN copied) |->
                         IF k \in DOMAIN copied THEN copied[k] ELSE authed[k]],
         body |-> req.body]

\* http_proxy_handler's db_path: "/db" and "/db/" map to the root, "/db/x"
\* to "x".
DbPath(path) ==
    IF path = <<"db">> \/ path = <<"db", "">> THEN <<>>
    ELSE SubSeq(path, 2, Len(path))

\* The request http_proxy_handler sends: the inbound request with its URI
\* rewritten, Host set to the backend's authority, and Authorization
\* inserted when both credentials are non-empty.
RoutedOutbound(cfg, req) ==
    LET hosted == With(req.headers, "host", "couchdb")
    IN  [method |-> req.method, base |-> "couchdb", path |-> DbPath(req.path),
         query |-> req.query,
         headers |-> IF cfg.username # "" /\ cfg.password # ""
                     THEN With(hosted, "authorization",
                               BasicAuth(cfg.username, cfg.password))
                     ELSE hosted,
         body |-> req.body]

\* A response body: a JSON object with the members named, some plain text,
\* or the bytes of the backend.
JsonBody(members, reason, secs) ==
    [kind |-> "json", members |-> members, reason |-> reason, secs |-> secs, len |-> 64]

TextBody == [kind |-> "text", members |-> {}, reason |-> "none", secs |-> 0, len |-> 32]

BackendBody(len) ==
    [kind |-> "backend", members |-> {}, reason |-> "none", secs |-> 0, len |-> len]

NoResponse == [status |-> 0, headers |-> EmptyMap, body |-> BackendBody(0)]

JsonResponse(status, body) ==
    [status |-> status, headers |-> [content_type |-> "application/json"], body |-> body]

\* What the backend may answer: a status, its headers, a body of some size.
BackendResponses ==
    { [status |-> st, headers |-> h, body |-> BackendBody(n)] :
        st \in {200, 204, 404},
        h \in { [content_type |-> "application/json"],
                [transfer_encoding |-> "chunked"] },
        n \in {16, 2 * 1024 * 1024, 25 * 1024 * 1024} }

\* A reqwest::Error of send(): what its text contains and what is_timeout()
\* and is_connect() answer.
SendErrors ==
    { [kind |-> "aborted", aborted |-> TRUE, is_timeout |-> FALSE, is_connect |-> FALSE],
      [kind |-> "timeout", aborted |-> FALSE, is_timeout |-> TRUE, is_connect |-> FALSE],
      [kind |-> "connect", aborted |-> FALSE, is_timeout |-> FALSE, is_connect |-> TRUE],
      [kind |-> "connect_timeout", aborted |-> FALSE, is_timeout |-> TRUE,
       is_connect |-> TRUE],
      [kind |-> "other", aborted |-> FALSE, is_timeout |-> FALSE, is_connect |-> FALSE] }

\* The hyper errors of client.request() in http_proxy_handler; its client
\* has no timeout.
HyperErrors == {"aborted", "connect", "other"}

\* http_forward_request: the arms of `match e`, in their order.
EngineErrorResponse(is_longpoll, err) ==
    IF is_longpoll /\ err.aborted
    THEN JsonResponse(204, JsonBody({"ok", "reason"}, "request_aborted", 0))
    ELSE IF err.is_timeout
    THEN JsonResponse(504, JsonBody({"error", "reason"}, "timeout",
                                    ReportedTimeoutSecs(is_longpoll)))
    ELSE IF err.is_connect
    THEN JsonResponse(502, JsonBody({"error", "reason"}, "connection_failed", 0))
    ELSE JsonResponse(502, JsonBody({"error", "reason"}, "unexpected_error", 0))

\* http_forward_request: response.bytes() failed.
EngineBodyErrorResponse == JsonResponse(502, JsonBody({"error"}, "none", 0))

\* http_proxy_handler: the Err arm of client.request().
ProxyErrorResponse(path) ==
    IF path = <<"db">>
    THEN JsonResponse(200, JsonBody({"couchdb", "version", "status", "note", "databases"},
                                    "none", 0))
    ELSE JsonResponse(502, JsonBody({"error", "reason"}, "forward_failed", 0))

\* db_proxy_handler: the early return of a long-poll that got 204.
LongpollNoContent ==
    JsonResponse(204, JsonBody({"results", "last_seq"}, "none", 0))

\* db_proxy_handler: the response rebuilt around the buffered body, without
\* transfer-encoding, with content-length and a content-type.
Rebuilt(resp) ==
    LET kept == Without(resp.headers, {"transfer_encoding"})
        sized == With(kept, "content_length", "len")
    IN  [status |-> resp.status,
         headers |-> IF "content_type" \in DOMAIN sized THEN sized
                     ELSE With(sized, "content_type", "application/json"),
         body |-> resp.body]

\* db_proxy_handler: to_bytes failed.
BufferErrorResponse == [status |-> 500, headers |-> EmptyMap, body |-> TextBody]

BufferSize(is_longpoll, is_bulk_docs) ==
    IF is_longpoll THEN LongpollBufferSize
    ELSE IF is_bulk_docs THEN BulkDocsBufferSize
    ELSE DefaultBufferSize

\* MetricsState::new
NoCounts == [total |-> 0, success |-> 0, error |-> 0]

\* MetricsState::record_request: the internal counters.
record_request(counts, path, method, status_code) ==
    [total |-> counts.total + 1,
     success |-> counts.success + (IF status_code < 400 THEN 1 ELSE 0),
     error |-> counts.error + (IF status_code < 400 THEN 0 ELSE 1)]

GatewayIdle ==
    [pc |-> "idle", entry |-> "none", req |-> NoRequest, is_longpoll |-> FALSE,
     timeout_secs |-> 0, buffer_size |-> 0, outbound |-> NoOutbound,
     failure |-> "none", backend |-> NoResponse, response |-> NoResponse,
     available |-> FALSE]

Forwarded(g, response, failure) ==
    [g EXCEPT !.pc = "done", !.response = response, !.failure = failure]

\* http_forward_request, to req_builder.send()
http_forward_request(req) ==
    /\ gw.pc = "idle"
    /\ LET is_longpoll == IsLongpoll(req.path, FALSE, req.query)
       IN  gw' = [GatewayIdle EXCEPT
                     !.pc = "e_send", !.entry = "engine", !.req = req,
                     !.is_longpoll = is_longpoll,
                     !.timeout_secs =
                         ClientTimeoutSecs(is_longpoll, IsChangesRequest(req.path, FALSE)),
                     !.outbound = EngineOutbound(config, req)]
    /\ UNCHANGED <<config, request_counts, brokerVars, serviceVars, healthVars, readerVars, repoVars>>

\* send() failed: the error is mapped to a response, which is returned.
EngineSendFailed(err) ==
    /\ gw.pc = "e_send"
    /\ gw' = Forwarded(gw, EngineErrorResponse(gw.is_longpoll, err), err.kind)
    /\ UNCHANGED <<config, request_counts, brokerVars, serviceVars, healthVars, readerVars, repoVars>>

\* send() returned the backend's status and headers.
EngineSendOk(b) ==
    /\ gw.pc = "e_send"
    /\ gw' = [gw EXCEPT !.pc = "e_body", !.backend = b]
    /\ UNCHANGED <<config, request_counts, brokerVars, serviceVars, healthVars, readerVars, repoVars>>

\* response.bytes().await: the whole body, or an error.
EngineBody(ok) ==
    /\ gw.pc = "e_body"
    /\ gw' = IF ok THEN Forwarded(gw, gw.backend, "none")
             ELSE Forwarded(gw, EngineBodyErrorResponse, "body_read")
    /\ UNCHANGED <<config, request_counts, brokerVars, serviceVars, healthVars, readerVars, repoVars>>

\* db_proxy_handler's classification of the request, and the request
\* http_proxy_handler builds for the backend.
ProxyRequest(cfg, req) ==
    LET is_longpoll == IsLongpoll(req.path, TRUE, req.query)
    IN  [GatewayIdle EXCEPT
            !.pc = "r_send", !.entry = "routed", !.req = req,
            !.is_longpoll = is_longpoll,
            !.buffer_size = BufferSize(is_longpoll, IsBulkDocs(req.path, TRUE)),
            !.outbound = RoutedOutbound(cfg, req)]

http_proxy_handler_refuses(available, cfg, req) ==
    IF available
    THEN [ProxyRequest(cfg, req) EXCEPT !.available = available]
    ELSE [GatewayIdle EXCEPT
             !.pc = "done", !.entry = "routed", !.req = req,
             !.failure = "unavailable",
             !.response = JsonResponse(503, JsonBody({"error", "reason"}, "none", 0))]

\* http_proxy_handler, to client.request(): couchdb_status is read and
\* logged, and the request goes on whether the backend is available or not.
http_proxy_handler(available, cfg, req) ==
    [ProxyRequest(cfg, req) EXCEPT !.available = available]

\* db_proxy_handler, into http_proxy_handler and to client.request()
db_proxy_handler(req) ==
    /\ gw.pc = "idle"
    /\ gw' = http_proxy_handler(hs.available, config, req)
    /\ UNCHANGED <<config, request_counts, brokerVars, serviceVars, healthVars, readerVars, repoVars>>

\* client.request() failed: http_proxy_handler answers itself, and
\* db_proxy_handler buffers and rebuilds that answer.
ProxySendFailed(err) ==
    /\ gw.pc = "r_send"
    /\ gw' = Forwarded(gw, Rebuilt(ProxyErrorResponse(gw.req.path)), err)
    /\ UNCHANGED <<config, request_counts, brokerVars, serviceVars, healthVars, readerVars, repoVars>>

\* client.request() returned: http_proxy_handler passes the backend's status
\* and headers on with the body as a stream; db_proxy_handler returns early
\* for a long-poll with 204 and otherwise goes to buffer the body.
ProxySendOk(b) ==
    /\ gw.pc = "r_send"
    /\ gw' = IF gw.is_longpoll /\ b.status = 204
             THEN [Forwarded(gw, LongpollNoContent, "none") EXCEPT !.backend = b]
             ELSE [gw EXCEPT !.pc = "r_buffer", !.backend = b]
    /\ UNCHANGED <<config, request_counts, brokerVars, serviceVars, healthVars, readerVars, repoVars>>

\* to_bytes(body, buffer_size): the stream may fail, and a body over the cap
\* is an error.
ProxyBuffer(stream_ok) ==
    /\ gw.pc = "r_buffer"
    /\ gw' = IF ~stream_ok
             THEN Forwarded(gw, BufferErrorResponse, "body_read")
             ELSE IF gw.backend.body.len > gw.buffer_size
             THEN Forwarded(gw, BufferErrorResponse, "buffer_cap")
             ELSE Forwarded(gw, Rebuilt(gw.backend), "none")
    /\ UNCHANGED <<config, request_counts, brokerVars, serviceVars, healthVars, readerVars, repoVars>>

(***************************************************************************)
(* The CouchDbRepository trait and its two implementations: CouchDbClient, *)
(* one HTTP request per call to the backend, and InMemoryCouchDb, one      *)
(* critical section per call.  Either way a call is one step.  Documents   *)
(* are kept as database -> (id -> CouchDbDocument).                        *)
(***************************************************************************)
RepoImpls == {"CouchDbClient", "InMemoryCouchDb"}

\* Uuids minted before the model stops saving into the in-memory repository.
MaxUuids == 4

DocIds == {"", "n1"}

DocData == {Obj([content |-> Str("hi")]), Obj([content |-> Str("yo")])}

DocRevs == {"1-abc", "7-old"}

\* CouchDbDocument { id, rev, data }
Documents == [id : DocIds, rev : {None, Some("1-abc")}, data : DocData]

NoDocument == [id |-> "none", rev |-> None, data |-> Null]

\* Uuid::new_v4(): the n-th value minted.
Uuid(n) == "u" \o ToString(n)

\* The ids a caller may ask for: those it chose and those minted for it.
KnownIds == DocIds \cup {Uuid(n) : n \in 1..MaxUuids}

\* Serialize for CouchDbDocument: `_id`, `_rev` unless None, and the members
\* of `data` flattened beside them.
to_value(doc) ==
    Obj([k \in (DOMAIN doc.data.obj) \cup {"_id"}
                  \cup (IF IsSome(doc.rev) THEN {"_rev"} ELSE {}) |->
            CASE k = "_id" -> Str(doc.id)
              [] k = "_rev" -> Str(doc.rev.some)
              [] OTHER -> doc.data.obj[k]])

\* The revisions the backend holds, as save_document above reads them.
Revisions(store) ==
    [db \in DOMAIN store |-> [id \in DOMAIN store[db] |-> store[db][id].rev.some]]

\* InMemoryCouchDb::get_document
mem_get_document(store, db_name, doc_id) ==
    IF db_name \in DOMAIN store /\ doc_id \in DOMAIN store[db_name]
    THEN [res |-> "Ok", status |-> 200, doc |-> store[db_name][doc_id], store |-> store]
    ELSE [res |-> "CouchDbError", status |-> 404, doc |-> NoDocument, store |-> store]

\* InMemoryCouchDb::save_document: the database is created when missing, an
\* empty id is replaced by a new uuid, and the revision is always a new one.
mem_save_document(store, minted, db_name, doc) ==
    LET dbs == IF db_name \in DOMAIN store THEN store
               ELSE MapInsert(store, db_name, EmptyMap)
        fresh_id == doc.id = ""
        id == IF fresh_id THEN Uuid(minted + 1) ELSE doc.id
        used == IF fresh_id THEN minted + 2 ELSE minted + 1
        new_doc == [doc EXCEPT !.id = id, !.rev = Some("1-" \o Uuid(used))]
    IN  [res |-> "Ok", status |-> 201, doc |-> new_doc, minted |-> used,
         store |-> [dbs EXCEPT ![db_name] = MapInsert(@, id, new_doc)]]

\* InMemoryCouchDb::delete_document: the revision is not looked at.
mem_delete_document(store, db_name, doc_id, rev) ==
    IF db_name \in DOMAIN store /\ doc_id \in DOMAIN store[db_name]
    THEN [res |-> "Ok", status |-> 200, doc |-> NoDocument,
          store |-> [store EXCEPT ![db_name] = MapRemove(@, doc_id)]]
    ELSE [res |-> "CouchDbError", status |-> 404, doc |-> NoDocument, store |-> store]

get_document_unchecked_status(store, db_name, doc_id) ==
    { IF db_name \in DOMAIN store /\ doc_id # "" /\ doc_id \in DOMAIN store[db_name]
      THEN [res |-> "Ok", status |-> 200,
            doc |-> from_value(to_value(store[db_name][doc_id])).doc, store |-> store]
      ELSE [res |-> "InvalidMessage", status |-> 404, doc |-> NoDocument, store |-> store],
      [res |-> "CouchDbError", status |-> 0, doc |-> NoDocument, store |-> store] }

\* CouchDbClient::get_document: GET {base}/{db}/{id}.  A transport error,
\* 404 and any other failure status are CouchDbError; a success body that is
\* no document is InvalidMessage.  With an empty id the URL is the
\* database's, whose description is no document.
get_document(store, db_name, doc_id) ==
    { IF db_name \notin DOMAIN store
      THEN [res |-> "CouchDbError", status |-> 404, doc |-> NoDocument, store |-> store]
      ELSE IF doc_id = ""
      THEN LET parsed == from_value(Obj([db_name |-> Str(db_name)]))
           IN  [res |-> IF parsed.ok THEN "Ok" ELSE "InvalidMessage", status |-> 200,
                doc |-> NoDocument, store |-> store]
      ELSE IF doc_id \notin DOMAIN store[db_name]
      THEN [res |-> "CouchDbError", status |-> 404, doc |-> NoDocument, store |-> store]
      ELSE LET parsed == from_value(to_value(store[db_name][doc_id]))
           IN  IF parsed.ok
               THEN [res |-> "Ok", status |-> 200, doc |-> parsed.doc, store |-> store]
               ELSE [res |-> "InvalidMessage", status |-> 200, doc |-> NoDocument,
                     store |-> store],
      [res |-> "CouchDbError", status |-> 0, doc |-> NoDocument, store |-> store] }

\* CouchDbClient::save_document, on documents: the backend keeps the body it
\* was sent under the revision it answers with.  With an empty id the URL
\* is the database's, which exists: 412.
client_save_document(store, db_name, doc) ==
    IF doc.id = "" /\ db_name \in DOMAIN store
    THEN { [res |-> "CouchDbError", status |-> 412, doc |-> NoDocument, store |-> store],
           [res |-> "CouchDbError", status |-> 0, doc |-> NoDocument, store |-> store] }
    ELSE { IF r.res = "Ok"
           THEN [res |-> "Ok", status |-> r.status, doc |-> r.doc,
                 store |-> [store EXCEPT ![db_name] =
                              MapInsert(@, doc.id,
                                        [from_value(to_value(doc)).doc
                                            EXCEPT !.rev = r.doc.rev])]]
           ELSE [res |-> r.res, status |-> r.status, doc |-> NoDocument, store |-> store] :
           r \in save_document(Revisions(store), db_name, doc) }

\* CouchDbClient::delete_document: DELETE {base}/{db}/{id}?rev={rev}; every
\* failure is CouchDbError.  The backend refuses a missing document (404)
\* and a revision that is not the current one (409).
delete_document(store, db_name, doc_id, rev) ==
    { IF db_name \notin DOMAIN store \/ doc_id \notin DOMAIN store[db_name]
      THEN [res |-> "CouchDbError", status |-> 404, doc |-> NoDocument, store |-> store]
      ELSE IF store[db_name][doc_id].rev # Some(rev)
      THEN [res |-> "CouchDbError", status |-> 409, doc |-> NoDocument, store |-> store]
      ELSE [res |-> "Ok", status |-> 200, doc |-> NoDocument,
            store |-> [store EXCEPT ![db_name] = MapRemove(@, doc_id)]],
      [res |-> "CouchDbError", status |-> 0, doc |-> NoDocument, store |-> store] }

NoCall == [op |-> "none", db |-> "none", id |-> "none", input |-> NoDocument,
           rev |-> "none", res |-> "none", status |-> 0, doc |-> NoDocument]

\* InMemoryCouchDb::new; the client is given a backend that has the database.
RepoIdle ==
    [impl |-> "InMemoryCouchDb", store |-> EmptyMap, minted |-> 0,
     last |-> NoCall, prev |-> NoCall, deleted |-> {}]

RepoStates ==
    { RepoIdle,
      [RepoIdle EXCEPT !.impl = "CouchDbClient",
                       !.store = MapInsert(EmptyMap, "notes", EmptyMap)] }

\* A call returns: it becomes the last call, and the pairs deleted and not
\* saved since are kept.
Called(call, r, minted, deleted) ==
    [repo EXCEPT !.store = r.store, !.minted = minted, !.prev = repo.last,
                 !.last = [call EXCEPT !.res = r.res, !.status = r.status, !.doc = r.doc],
                 !.deleted = deleted]

\* repo.save_document(db_name, doc)
RepoSave(db_name, doc) ==
    /\ repo.impl = "InMemoryCouchDb" => repo.minted + 2 <= MaxUuids
    /\ LET call == [NoCall EXCEPT !.op = "save", !.db = db_name, !.id = doc.id,
                                  !.input = doc]
       IN  \E r \in IF repo.impl = "InMemoryCouchDb"
                    THEN {mem_save_document(repo.store, repo.minted, db_name, doc)}
                    ELSE client_save_document(repo.store, db_name, doc) :
              repo' = Called(call, r,
                             IF repo.impl = "InMemoryCouchDb" THEN r.minted
                             ELSE repo.minted,
                             IF r.res = "Ok"
                             THEN repo.deleted \ {<<db_name, r.doc.id>>}
                             ELSE repo.deleted)
    /\ UNCHANGED <<brokerVars, serviceVars, healthVars, gatewayVars, readerVars>>

\* repo.get_document(db_name, doc_id)
RepoGet(db_name, doc_id) ==
    /\ LET call == [NoCall EXCEPT !.op = "get", !.db = db_name, !.id = doc_id]
       IN  \E r \in IF repo.impl = "InMemoryCouchDb"
                    THEN {mem_get_document(repo.store, db_name, doc_id)}
                    ELSE get_document(repo.store, db_name, doc_id) :
              repo' = Called(call, r, repo.minted, repo.deleted)
    /\ UNCHANGED <<brokerVars, serviceVars, healthVars, gatewayVars, readerVars>>

\* repo.delete_document(db_name, doc_id, rev)
RepoDelete(db_name, doc_id, rev) ==
    /\ LET call == [NoCall EXCEPT !.op = "delete", !.db = db_name, !.id = doc_id,
                                  !.rev = rev]
       IN  \E r \in IF repo.impl = "InMemoryCouchDb"
                    THEN {mem_delete_document(repo.store, db_name, doc_id, rev)}
                    ELSE delete_document(repo.store, db_name, doc_id, rev) :
              repo' = Called(call, r, repo.minted,
                             IF r.res = "Ok"
                             THEN repo.deleted \cup {<<db_name, doc_id>>}
                             ELSE repo.deleted)
    /\ UNCHANGED <<brokerVars, serviceVars, healthVars, gatewayVars, readerVars>>

(***************************************************************************)
(* Initial states and specifications: the broker under direct calls, the   *)
(* coordinator on a broker and a backend, the gateway, the health loop     *)
(* alone, with readers and beside the gateway, and the repository.         *)
(***************************************************************************)
\* WebSocketBroker::new, with no call issued yet.
BrokerIdle ==
    [connections |-> EmptyMap, btask |-> [t \in BTasks |-> IdleTask],
     last |-> "none", before |-> EmptyMap]

\* HealthState::new, and main's first update_couchdb_status.
HealthStates ==
    {h \in [pc : {"sleep"}, build : Builds, auth : BOOLEAN,
            check_interval : CheckIntervals, current_interval : CheckIntervals,
            consecutive_failures : {0}, couchdb_errors : {0},
            errors_locked : {FALSE}, status : {"Healthy"},
            available : BOOLEAN, error_message : {"none"}, pending_error : {"none"}] :
        h.current_interval = h.check_interval}

HealthIdle ==
    [pc |-> "sleep", build |-> "release", auth |-> TRUE,
     check_interval |-> 30, current_interval |-> 30,
     consecutive_failures |-> 0, couchdb_errors |-> 0,
     errors_locked |-> FALSE, status |-> "Healthy",
     available |-> FALSE, error_message |-> "none", pending_error |-> "none"]

NoHistory == [streak |-> 0, prev |-> 0, last |-> "none", seen |-> "Healthy"]

InitWith(impls, healths, configs, repos) ==
    /\ connections = BrokerIdle.connections
    /\ btask = BrokerIdle.btask
    /\ last = BrokerIdle.last
    /\ before = BrokerIdle.before
    /\ broker_impl \in impls
    /\ client_connections = <<>>
    /\ stask = [s \in STasks |-> IdleSTask]
    /\ databases = EmptyMap
    /\ hs \in healths
    /\ hist = NoHistory
    /\ config \in configs
    /\ gw = GatewayIdle
    /\ request_counts = NoCounts
    /\ readers = [r \in Readers |-> IdleReader]
    /\ repo \in repos

BrokerNext ==
    \/ \E t \in BTasks, id \in ClientIds : CallRegister(t, id)
    \/ \E t \in BTasks, id \in ClientIds : CallUnregister(t, id)
    \/ \E t \in BTasks, id \in ClientIds, m \in Msgs : CallSend(t, id, m)
    \/ \E t \in BTasks, m \in Msgs : CallBroadcast(t, m)
    \/ \E t \in BTasks : ExecRegister(t)
    \/ \E t \in BTasks : ExecUnregister(t)
    \/ \E t \in BTasks : ExecSend(t)
    \/ \E t \in BTasks : ExecBroadcast(t)

ServiceNext ==
    \/ \E s \in STasks, c \in ClientIds, p \in ConnectionPayloads :
          handle_message(s, c, [message_type |-> "Connection", payload |-> p])
    \/ \E s \in STasks, c \in ClientIds, p \in SyncPayloads :
          handle_message(s, c, [message_type |-> "Sync", payload |-> p])
    \/ \E s \in STasks : handle_connection_register(s)
    \/ \E s \in STasks : handle_connection_track(s)
    \/ \E s \in STasks : handle_connection_send(s)
    \/ \E s \in STasks : handle_sync_begin(s)
    \/ \E s \in STasks : ensure_database_exists(s)
    \/ \E s \in STasks : ensure_database_create(s)
    \/ \E s \in STasks : handle_sync_save(s)
    \/ \E s \in STasks : handle_sync_reply(s)
    \/ \E s \in STasks, c \in ClientIds : handle_disconnection(s, c)
    \/ \E s \in STasks : handle_disconnection_unregister(s)
    \/ \E s \in STasks : handle_disconnection_track(s)

HealthNext ==
    \/ Wake
    \/ PingOk
    \/ \E outcome \in {"error", "timeout"} : PingFailed(outcome)
    \/ update_couchdb_status
    \/ record_couchdb_success
    \/ record_couchdb_error_degraded
    \/ record_couchdb_error_unhealthy

\* The broker alone, called by concurrent tasks.
InitBroker == InitWith({"WebSocketBroker"}, {HealthIdle}, {DefaultConfig}, {RepoIdle})

SpecBroker == InitBroker /\ [][BrokerNext]_vars

\* The coordinator on the WebSocketBroker.
InitService == InitWith({"WebSocketBroker"}, {HealthIdle}, {DefaultConfig}, {RepoIdle})

SpecService == InitService /\ [][ServiceNext]_vars

\* The coordinator on a mock of the MessageBroker trait, which may answer
\* each call with any of the trait's results.
InitCoordinator == InitWith({"Mock"}, {HealthIdle}, {DefaultConfig}, {RepoIdle})

SpecCoordinator == InitCoordinator /\ [][ServiceNext]_vars

\* The coordinator under the messages that reach no document, on either
\* broker.
MessagesNext ==
    \/ \E s \in STasks, c \in ClientIds, p \in ConnectionPayloads :
          handle_message(s, c, [message_type |-> "Connection", payload |-> p])
    \/ \E s \in STasks, c \in ClientIds, p \in ReplicatePayloads :
          handle_message(s, c, [message_type |-> "Replicate", payload |-> p])
    \/ \E s \in STasks, c \in ClientIds, p \in ErrorPayloads :
          handle_message(s, c, [message_type |-> "Heartbeat", payload |-> p])
    \/ \E s \in STasks, c \in ClientIds, p \in ErrorPayloads :
          handle_message(s, c, [message_type |-> "Error", payload |-> p])
    \/ \E s \in STasks : handle_connection_register(s)
    \/ \E s \in STasks : handle_connection_track(s)
    \/ \E s \in STasks : handle_connection_send(s)
    \/ \E s \in STasks : handle_replication_begin(s)
    \/ \E s \in STasks : handle_replication_replicate(s)
    \/ \E s \in STasks : handle_replication_reply(s)
    \/ \E s \in STasks : handle_error(s)

InitMessages == InitWith(BrokerImpls, {HealthIdle}, {DefaultConfig}, {RepoIdle})

SpecMessages == InitMessages /\ [][MessagesNext]_vars

\* The gateway: a request through either entry, under every configuration
\* of the credentials.  Requests share no state, so one is followed.
GatewayNext ==
    \/ \E req \in Requests(ForwardPaths) : http_forward_request(req)
    \/ \E err \in SendErrors : EngineSendFailed(err)
    \/ \E b \in BackendResponses : EngineSendOk(b)
    \/ \E ok \in BOOLEAN : EngineBody(ok)
    \/ \E req \in Requests(RoutedPaths) : db_proxy_handler(req)
    \/ \E err \in HyperErrors : ProxySendFailed(err)
    \/ \E b \in BackendResponses : ProxySendOk(b)
    \/ \E ok \in BOOLEAN : ProxyBuffer(ok)

InitGateway == InitWith({"WebSocketBroker"}, {HealthIdle}, Configs, {RepoIdle})

SpecGateway == InitGateway /\ [][GatewayNext]_vars

\* The health loop.
InitHealth == InitWith({"WebSocketBroker"}, HealthStates, {DefaultConfig}, {RepoIdle})

SpecHealth == InitHealth /\ [][HealthNext]_vars

\* The health loop with tasks reading what it writes.
ReaderNext ==
    \/ \E r \in Readers : HealthRequest(r)
    \/ \E r \in Readers : get_status(r)
    \/ \E r \in Readers : get_couchdb_errors(r)

\* Failed probes in a row that the specifications with readers follow.
WatchedFailures == 12

WatchedHealthNext == hs.consecutive_failures <= WatchedFailures /\ HealthNext

MonitorNext == WatchedHealthNext \/ ReaderNext

InitMonitor == InitWith({"WebSocketBroker"}, {HealthIdle}, {DefaultConfig}, {RepoIdle})

SpecMonitor == InitMonitor /\ [][MonitorNext]_vars

\* The routed handler while the health loop runs.
AdvisoryRequests ==
    {req \in Requests({<<"db">>, <<"db", "notes", "_changes">>}) :
        /\ req.method = "GET" /\ req.body = ""
        /\ req.query \in {None, Some(<<"feed=longpoll">>)}
        /\ "authorization" \notin DOMAIN req.headers}

AdvisoryResponses ==
    {b \in BackendResponses : b.body.len = 16 /\ "content_type" \in DOMAIN b.headers}

AdvisoryNext ==
    \/ WatchedHealthNext
    \/ \E req \in AdvisoryRequests : db_proxy_handler(req)
    \/ \E err \in HyperErrors : ProxySendFailed(err)
    \/ \E b \in AdvisoryResponses : ProxySendOk(b)
    \/ \E ok \in BOOLEAN : ProxyBuffer(ok)

InitAdvisory == InitWith({"WebSocketBroker"}, {HealthIdle}, {DefaultConfig}, {RepoIdle})

SpecAdvisory == InitAdvisory /\ [][AdvisoryNext]_vars

\* A repository under any sequence of calls.
RepositoryNext ==
    \/ \E db \in DbNames, doc \in Documents : RepoSave(db, doc)
    \/ \E db \in DbNames, id \in KnownIds : RepoGet(db, id)
    \/ \E db \in DbNames, id \in KnownIds, rev \in DocRevs : RepoDelete(db, id, rev)

InitRepository == InitWith({"WebSocketBroker"}, {HealthIdle}, {DefaultConfig}, RepoStates)

SpecRepository == InitRepository /\ [][RepositoryNext]_vars

\* The coordinator's sessions on the WebSocketBroker: Connection messages and
\* disconnections only.
SessionNext ==
    \/ \E s \in STasks, c \in ClientIds, p \in ConnectionPayloads :
          handle_message(s, c, [message_type |-> "Connection", payload |-> p])
    \/ \E s \in STasks : handle_connection_register(s)
    \/ \E s \in STasks : handle_connection_track(s)
    \/ \E s \in STasks : handle_connection_send(s)
    \/ \E s \in STasks, c \in ClientIds : handle_disconnection(s, c)
    \/ \E s \in STasks : handle_disconnection_unregister(s)
    \/ \E s \in STasks : handle_disconnection_track(s)

InitSessions == InitWith({"WebSocketBroker"}, {HealthIdle}, {DefaultConfig}, {RepoIdle})

SpecSessions == InitSessions /\ [][SessionNext]_vars

\* The coordinator under Sync messages only.
SyncNext ==
    \/ \E s \in STasks, c \in ClientIds, p \in SyncPayloads :
          handle_message(s, c, [message_type |-> "Sync", payload |-> p])
    \/ \E s \in STasks : handle_sync_begin(s)
    \/ \E s \in STasks : ensure_database_exists(s)
    \/ \E s \in STasks : ensure_database_create(s)
    \/ \E s \in STasks : handle_sync_save(s)
    \/ \E s \in STasks : handle_sync_reply(s)

InitSync == InitWith(BrokerImpls, {HealthIdle}, {DefaultConfig}, {RepoIdle})

SpecSync == InitSync /\ [][SyncNext]_vars

\* One client's session on the WebSocketBroker: every kind of message, and
\* the disconnection.
SessionMessagesNext ==
    \/ \E s \in STasks, p \in ConnectionPayloads :
          handle_message(s, "c1", [message_type |-> "Connection", payload |-> p])
    \/ \E s \in STasks, p \in SyncPayloads :
          handle_message(s, "c1", [message_type |-> "Sync", payload |-> p])
    \/ \E s \in STasks, p \in ReplicatePayloads :
          handle_message(s, "c1", [message_type |-> "Replicate", payload |-> p])
    \/ \E s \in STasks, p \in ErrorPayloads :
          handle_message(s, "c1", [message_type |-> "Heartbeat", payload |-> p])
    \/ \E s \in STasks, p \in ErrorPayloads :
          handle_message(s, "c1", [message_type |-> "Error", payload |-> p])
    \/ \E s \in STasks : handle_connection_register(s)
    \/ \E s \in STasks : handle_connection_track(s)
    \/ \E s \in STasks : handle_connection_send(s)
    \/ \E s \in STasks : handle_sync_begin(s)
    \/ \E s \in STasks : ensure_database_exists(s)
    \/ \E s \in STasks : ensure_database_create(s)
    \/ \E s \in STasks : handle_sync_save(s)
    \/ \E s \in STasks : handle_sync_reply(s)
    \/ \E s \in STasks : handle_replication_begin(s)
    \/ \E s \in STasks : handle_replication_replicate(s)
    \/ \E s \in STasks : handle_replication_reply(s)
    \/ \E s \in STasks : handle_error(s)
    \/ \E s \in STasks : handle_disconnection(s, "c1")
    \/ \E s \in STasks : handle_disconnection_unregister(s)
    \/ \E s \in STasks : handle_disconnection_track(s)

InitSessionMessages ==
    InitWith({"WebSocketBroker"}, {HealthIdle}, {DefaultConfig}, {RepoIdle})

SpecSessionMessages == InitSessionMessages /\ [][SessionMessagesNext]_vars

\* The gateway under requests of every class, a path that holds both
\* /_bulk_docs and /_changes among them.
ClassifiedRequests(paths, both) ==
    {req \in Requests(paths \cup {both}) :
        /\ req.method = "GET" /\ req.body = ""
        /\ "authorization" \notin DOMAIN req.headers}

ClassifierNext ==
    \/ \E req \in ClassifiedRequests(ForwardPaths, <<"notes", "_bulk_docs", "_changes">>) :
          http_forward_request(req)
    \/ \E err \in SendErrors : EngineSendFailed(err)
    \/ \E b \in BackendResponses : EngineSendOk(b)
    \/ \E ok \in BOOLEAN : EngineBody(ok)
    \/ \E req \in ClassifiedRequests(RoutedPaths, <<"db", "notes", "_bulk_docs", "_changes">>) :
          db_proxy_handler(req)
    \/ \E err \in HyperErrors : ProxySendFailed(err)
    \/ \E b \in BackendResponses : ProxySendOk(b)
    \/ \E ok \in BOOLEAN : ProxyBuffer(ok)

InitClassifier == InitWith({"WebSocketBroker"}, {HealthIdle}, {DefaultConfig}, {RepoIdle})

SpecClassifier == InitClassifier /\ [][ClassifierNext]_vars

Init == InitWith(BrokerImpls, HealthStates, Configs, RepoStates)

Next ==
    \/ BrokerNext \/ ServiceNext \/ MessagesNext \/ HealthNext \/ GatewayNext
    \/ ReaderNext \/ RepositoryNext

Spec == Init /\ [][Next]_vars

(***************************************************************************)
(* The broker's contract (websocket.rs), under SpecBroker.                 *)
(***************************************************************************)
\* The call of task t is the one that ran last, and was `op`.
Ran(t, op) == last = t /\ btask[t].pc = "done" /\ btask[t].op = op

\* t and u waited together to register the same unregistered id, and both
\* calls have run.
Raced(t, u) ==
    /\ t # u
    /\ btask[t].pc = "done" /\ btask[u].pc = "done"
    /\ btask[t].op = "register" /\ btask[u].op = "register"
    /\ btask[t].id = btask[u].id
    /\ u \in btask[t].race /\ t \in btask[u].race

\* C1: register_client(id) fails with "already registered" and leaves the
\* registry as it was when id is registered, and succeeds, adding only id,
\* when it is not; of two tasks registering the same unregistered id at the
\* same time exactly one succeeds.
C1_RegisterUniqueness ==
    /\ \A t \in BTasks :
          Ran(t, "register") =>
             IF btask[t].id \in DOMAIN before
             THEN btask[t].res = "AlreadyRegistered" /\ connections = before
             ELSE /\ btask[t].res = "Ok"
                  /\ DOMAIN connections = (DOMAIN before) \cup {btask[t].id}
                  /\ \A c \in DOMAIN before : connections[c] = before[c]
    /\ \A t, u \in BTasks :
          Raced(t, u) => Cardinality({x \in {t, u} : btask[x].res = "Ok"}) = 1

\* Two tasks raced to register one id: one succeeded, the other, running
\* last, was refused.
C1_Witness ==
    \E t, u \in BTasks :
        /\ Raced(t, u)
        /\ btask[t].res = "Ok"
        /\ Ran(u, "register") /\ btask[u].res = "AlreadyRegistered"

\* C2: send_message and unregister_client for an id that is not registered
\* return "not found" and leave the registry, every channel included, as it
\* was.
C2_MissingClient ==
    \A t \in BTasks :
        ((Ran(t, "send") \/ Ran(t, "unregister")) /\ btask[t].id \notin DOMAIN before) =>
            /\ btask[t].res = "NotFound"
            /\ connections = before

\* An id was unregistered by one task and then unregistered again by the
\* other, while another client stayed registered.
C2_Witness ==
    \E t, u \in BTasks :
        /\ t # u
        /\ Ran(t, "unregister") /\ btask[t].id \notin DOMAIN before
        /\ btask[t].res = "NotFound"
        /\ btask[u].pc = "done" /\ btask[u].op = "unregister"
        /\ btask[u].id = btask[t].id /\ btask[u].res = "Ok"
        /\ DOMAIN connections # {}

\* C3: while id is registered, send_message(id, m) returns success and pushes
\* m onto id's channel and onto no other.
C3_SendToRegistered ==
    \A t \in BTasks :
        (Ran(t, "send") /\ btask[t].id \in DOMAIN before) =>
            /\ btask[t].res = "Ok"
            /\ connections[btask[t].id].queue = Append(before[btask[t].id].queue, btask[t].msg)
            /\ \A c \in (DOMAIN before) \ {btask[t].id} : connections[c] = before[c]

\* C4: broadcast_message(m) reports exactly the clients whose connection is
\* dead, delivers m to every other registered client, succeeds only when it
\* reports none, and with two clients registered still delivers to the live
\* one.
C4_BroadcastPartialFailure ==
    \A t \in BTasks :
        Ran(t, "broadcast") =>
            /\ btask[t].errors = {c \in DOMAIN before : before[c].rx_cnt = 0}
            /\ \A c \in (DOMAIN before) \ btask[t].errors :
                  connections[c].queue = Append(before[c].queue, btask[t].msg)
            /\ (btask[t].res = "Ok") <=> (btask[t].errors = {})
            /\ Cardinality(DOMAIN before) >= 2 =>
                  \E a \in DOMAIN before :
                      /\ a \notin btask[t].errors
                      /\ connections[a].queue = Append(before[a].queue, btask[t].msg)

(***************************************************************************)
(* The health monitor (health.rs), under SpecHealth.                       *)
(***************************************************************************)
\* The state the thresholds give n consecutive failures.
StateFor(n) == IF n >= 10 THEN "Unhealthy" ELSE IF n >= 3 THEN "Degraded" ELSE "Healthy"

\* C5: between iterations of the loop the state is the one the number of
\* consecutive failed checks since the last success gives: Healthy below 3,
\* Degraded from 3, Unhealthy from 10, and Healthy again after a success.
C5_StateThresholds == hs.pc = "sleep" => hs.status = StateFor(hist.streak)

\* The tenth consecutive failure has been recorded.
C5_Witness == hs.pc = "sleep" /\ hist.streak = 10 /\ hs.status = "Unhealthy"

\* C6: the intervals that consecutive failed probes produce never decrease
\* and never exceed 300 s; a success resets the interval to the configured
\* one and the failure counter to 0.
C6_BackoffMonotone ==
    /\ hist.last = "failed" =>
          /\ hist.prev <= hs.current_interval
          /\ hs.current_interval <= 300
    /\ hist.last = "ok" =>
          /\ hs.current_interval = hs.check_interval
          /\ hs.consecutive_failures = 0

\* min(base * 2^n, 300), for a base of at least one second.
SpecBackoff(base, n) ==
    IF n >= 9 THEN 300
    ELSE IF base * (2^n) <= 300 THEN base * (2^n) ELSE 300

Done(s, kind) == stask[s].pc = "done" /\ stask[s].kind = kind

\* The message is in the channel the broker holds for the client.
Delivered(client_id, message) ==
    /\ client_id \in DOMAIN connections
    /\ \E i \in 1..Len(connections[client_id].queue) :
          connections[client_id].queue[i] = message

NotesSync == Obj([database |-> Str("notes"), document |-> DocGood])

\* C8: on the WebSocketBroker, a Connection message of c1 whose registration
\* goes through succeeds and delivers the "connected" acknowledgement to c1;
\* a Sync of document n1 to "notes" that the backend saves succeeds and
\* delivers a Sync reply with document_id n1 and a rev.
C8_EndToEnd ==
    \A s \in STasks :
        /\ (Done(s, "Connection") /\ stask[s].client = "c1"
                /\ stask[s].calls[1].res = "Ok") =>
              /\ stask[s].result = "Ok"
              /\ "c1" \in DOMAIN connections =>
                    Delivered("c1", [message_type |-> "Connection",
                                     payload |-> Obj([status |-> Str("connected"),
                                                      client_id |-> Str("c1")])])
        /\ (Done(s, "Sync") /\ stask[s].client = "c1" /\ stask[s].payload = NotesSync
                /\ Len(stask[s].calls) >= 2 /\ stask[s].calls[2].res = "Ok") =>
              /\ stask[s].result = "Ok"
              /\ "notes" \in DOMAIN databases /\ "n1" \in DOMAIN databases["notes"]
              /\ "c1" \in DOMAIN connections =>
                    \E m \in {connections["c1"].queue[i] : i \in 1..Len(connections["c1"].queue)} :
                        /\ m.message_type = "Sync"
                        /\ Index(m.payload, "document_id") = Str("n1")
                        /\ IsStr(Index(m.payload, "rev"))

\* The calls a handler has made that are calls of fn.
CallsOf(s, fn) == {i \in 1..Len(stask[s].calls) : stask[s].calls[i].fn = fn}

\* C9: a Connection handler calls register_client(id) first; it sends only
\* after that succeeded, once, a Connection message to the same id; when the
\* registration fails it returns the error and sends nothing.
C9_ConnectionOrder ==
    \A s \in STasks :
        stask[s].kind = "Connection" =>
            LET calls == stask[s].calls
            IN  /\ Len(calls) >= 1 =>
                      calls[1].fn = "register_client" /\ calls[1].arg = <<stask[s].client>>
                /\ \A i \in CallsOf(s, "send_message") :
                      /\ i = 2 /\ calls[1].res = "Ok"
                      /\ calls[i].arg[1] = stask[s].client
                      /\ calls[i].arg[2].message_type = "Connection"
                /\ stask[s].pc = "done" =>
                      IF calls[1].res = "Ok"
                      THEN /\ CallsOf(s, "send_message") = {2}
                           /\ stask[s].result = "Ok" <=> calls[2].res = "Ok"
                      ELSE /\ Len(calls) = 1
                           /\ stask[s].result = "WebSocketError"

\* One handler was refused the registration and returned the error without
\* sending; the other registered and sent its acknowledgement.
C9_Witness ==
    \E s, r \in STasks :
        /\ Done(s, "Connection") /\ stask[s].calls[1].res = "AlreadyRegistered"
        /\ stask[s].result = "WebSocketError" /\ Len(stask[s].calls) = 1
        /\ Done(r, "Connection") /\ Len(stask[r].calls) = 2 /\ stask[r].result = "Ok"

\* The document of a Sync payload is an object with a string _id.
HasDocument(payload) ==
    IsObj(Index(payload, "document")) /\ IsStr(Index(Index(payload, "document"), "_id"))

\* C10: a Sync handler whose payload has no string "database" returns
\* InvalidMessage with no call made; otherwise ensure_database(db) is its
\* first call, save_document follows at most once and only after
\* ensure_database succeeded on a well-formed document, and one Sync reply
\* with the document's id and its rev goes to the requesting client exactly
\* when save_document succeeded, after it.
C10_SyncOrder ==
    \A s \in STasks :
        stask[s].kind = "Sync" =>
            LET calls == stask[s].calls
                payload == stask[s].payload
            IN  IF ~IsStr(Index(payload, "database"))
                THEN /\ calls = <<>>
                     /\ stask[s].pc = "done" => stask[s].result = "InvalidMessage"
                ELSE /\ Len(calls) >= 1 =>
                          /\ calls[1].fn = "ensure_database"
                          /\ calls[1].arg = <<Index(payload, "database").str>>
                     /\ \A i \in CallsOf(s, "save_document") :
                          /\ i = 2 /\ calls[1].res = "Ok"
                          /\ HasDocument(payload)
                          /\ calls[i].arg = <<Index(payload, "database").str,
                                              Index(Index(payload, "document"), "_id").str>>
                     /\ \A i \in CallsOf(s, "send_message") :
                          /\ i = 3 /\ calls[2].fn = "save_document" /\ calls[2].res = "Ok"
                          /\ calls[i].arg[1] = stask[s].client
                          /\ calls[i].arg[2].message_type = "Sync"
                          /\ Index(calls[i].arg[2].payload, "document_id")
                                = Index(Index(payload, "document"), "_id")
                          /\ Index(calls[i].arg[2].payload, "rev")
                                = Str(databases[calls[2].arg[1]][calls[2].arg[2]])
                     /\ (stask[s].pc = "done" /\ Len(calls) >= 2 /\ calls[2].res = "Ok") =>
                          CallsOf(s, "send_message") = {3}

\* A Sync was handled to the end: ensure_database, save_document, the reply.
C10_Witness ==
    \E s \in STasks :
        /\ Done(s, "Sync") /\ stask[s].result = "Ok"
        /\ Len(stask[s].calls) = 3
        /\ stask[s].calls[3].fn = "send_message" /\ stask[s].calls[3].res = "Ok"

(***************************************************************************)
(* The coordinator's other messages, under SpecMessages; disconnection,    *)
(* under SpecService.                                                      *)
(***************************************************************************)
\* C11: a Replicate handler whose payload lacks a string "source" or
\* "target" returns InvalidMessage with no call made; otherwise it calls
\* replicate(source, target, options) once, first; a backend failure is
\* returned with nothing sent; after a success one Replicate message
\* carrying what the backend returned is sent to the requesting client.
C11_ReplicateOrder ==
    \A s \in STasks :
        stask[s].kind = "Replicate" =>
            LET calls == stask[s].calls
                payload == stask[s].payload
            IN  IF ~(IsStr(Index(payload, "source")) /\ IsStr(Index(payload, "target")))
                THEN /\ calls = <<>>
                     /\ stask[s].pc = "done" => stask[s].result = "InvalidMessage"
                ELSE /\ CallsOf(s, "replicate") \subseteq {1}
                     /\ stask[s].pc = "done" => CallsOf(s, "replicate") = {1}
                     /\ Len(calls) >= 1 =>
                          calls[1].arg = <<Index(payload, "source").str,
                                           Index(payload, "target").str,
                                           Index(payload, "options")>>
                     /\ \A i \in CallsOf(s, "send_message") :
                          /\ i = 2 /\ calls[1].res = "Ok"
                          /\ calls[i].arg[1] = stask[s].client
                          /\ calls[i].arg[2].message_type = "Replicate"
                          /\ Index(calls[i].arg[2].payload, "result") = stask[s].repl
                          /\ stask[s].repl \in ReplicationResults
                     /\ stask[s].pc = "done" =>
                          IF calls[1].res = "Ok"
                          THEN /\ CallsOf(s, "send_message") = {2}
                               /\ stask[s].result = "Ok" <=> calls[2].res = "Ok"
                          ELSE /\ Len(calls) = 1
                               /\ stask[s].result = calls[1].res
                               /\ stask[s].result # "Ok"

\* One replication with options ran to its reply; another was refused by
\* the backend and sent nothing.
C11_Witness ==
    \E s, r \in STasks :
        /\ Done(s, "Replicate") /\ stask[s].result = "Ok" /\ Len(stask[s].calls) = 2
        /\ IsObj(Index(stask[s].payload, "options"))
        /\ Done(r, "Replicate") /\ stask[r].result = "CouchDbError"
        /\ Len(stask[r].calls) = 1

\* C12: handle_disconnection calls unregister_client and returns success
\* whatever the broker answered.
C12_DisconnectionNeverFails ==
    \A s \in STasks :
        Done(s, "Disconnection") =>
            /\ CallsOf(s, "unregister_client") = {1}
            /\ stask[s].result = "Ok"

\* C13: a Heartbeat or Error handler makes no call of the backend or of the
\* broker, returns success, and its steps leave the registry, the tracking
\* list and the databases as they were.
C13_HeartbeatErrorFrame ==
    /\ [](\A s \in STasks :
            stask[s].kind \in {"Heartbeat", "Error"} =>
                /\ stask[s].calls = <<>>
                /\ stask[s].pc = "done" => stask[s].result = "Ok")
    /\ [][\A s \in STasks :
            (stask'[s] # stask[s] /\ stask'[s].kind \in {"Heartbeat", "Error"}) =>
                /\ connections' = connections
                /\ client_connections' = client_connections
                /\ databases' = databases]_vars

\* On the WebSocketBroker, an Error of an unregistered client and a
\* Heartbeat of a registered one have both been handled.
C13_Witness ==
    \E s, r \in STasks :
        /\ broker_impl = "WebSocketBroker"
        /\ Done(s, "Error") /\ stask[s].result = "Ok" /\ stask[s].payload # Null
        /\ stask[s].client \notin DOMAIN connections
        /\ Done(r, "Heartbeat") /\ stask[r].result = "Ok"
        /\ stask[r].client \in DOMAIN connections

(***************************************************************************)
(* The gateway's failure mapping, headers and metrics, under SpecGateway.  *)
(***************************************************************************)
\* The forward has returned its response after the failure named.
FailedWith(failure) == gw.pc = "done" /\ gw.failure = failure

HasErrorAndReason(body) == body.kind = "json" /\ {"error", "reason"} \subseteq body.members

\* C14: a long-poll forward that fails because the client aborted it is
\* answered 204 with the body {"ok":true,"reason":"request_aborted"}, never
\* 502.
C14_LongpollAbort ==
    (FailedWith("aborted") /\ gw.is_longpoll) =>
        /\ gw.response.status = 204
        /\ gw.response.body.kind = "json"
        /\ gw.response.body.members = {"ok", "reason"}
        /\ gw.response.body.reason = "request_aborted"

\* The statuses the failure taxonomy gives a failure.
Prescribed(failure, is_longpoll) ==
    CASE failure = "aborted" -> IF is_longpoll THEN {204} ELSE {502}
      [] failure = "timeout" -> {504}
      [] failure = "connect" -> {502}
      [] failure = "connect_timeout" -> {502, 504}
      [] failure = "other" -> {502}
      [] failure = "body_read" -> {502}
      [] failure = "buffer_cap" -> {500}

\* C15: every forward that fails, in any request class and by any transport
\* failure, returns a response whose status is the one the failure taxonomy
\* prescribes, among 204, 504, 502 and 500.
C15_FailureTaxonomy ==
    (gw.pc = "done" /\ gw.failure # "none") =>
        gw.response.status \in Prescribed(gw.failure, gw.is_longpoll)

\* C16: a forward that times out is answered 504 with a JSON body that
\* reports the timeout its request was sent with: 120 s for a long-poll,
\* 90 s for other _changes requests, the standard client's otherwise.
C16_TimeoutReported ==
    FailedWith("timeout") =>
        /\ gw.response.status = 504
        /\ gw.response.body.kind = "json"
        /\ gw.response.body.secs = gw.timeout_secs
        /\ gw.timeout_secs =
              (IF gw.is_longpoll THEN 120
               ELSE IF \E i \in 2..Len(gw.req.path) : gw.req.path[i] = "_changes" THEN 90
               ELSE StandardTimeoutSecs)

\* C17: a forward that cannot connect to the backend is answered 502 with a
\* JSON body of error and reason, for every method and every routed path.
C17_ConnectFailure ==
    FailedWith("connect") =>
        /\ gw.response.status = 502
        /\ HasErrorAndReason(gw.response.body)

\* The request the entry that took gw's request sends for request r.
OutboundOf(r) ==
    IF gw.entry = "engine" THEN EngineOutbound(config, r) ELSE RoutedOutbound(config, r)

\* C18: the outbound request carries neither the inbound Host nor the
\* inbound Authorization; its Authorization is Basic base64(user:password)
\* of the configuration exactly when both are non-empty and absent
\* otherwise; and it stays the same whatever the inbound Authorization is.
C18_AuthorizationNotForwarded ==
    gw.pc # "idle" =>
        /\ IF config.username # "" /\ config.password # ""
           THEN /\ "authorization" \in DOMAIN gw.outbound.headers
                /\ gw.outbound.headers["authorization"] = "Basic YWRtaW46c2VjcmV0"
           ELSE "authorization" \notin DOMAIN gw.outbound.headers
        /\ "host" \in DOMAIN gw.outbound.headers =>
              gw.outbound.headers["host"] # gw.req.headers["host"]
        /\ \A h \in InboundHeaders :
              Without(h, {"authorization"}) = Without(gw.req.headers, {"authorization"}) =>
                 OutboundOf([gw.req EXCEPT !.headers = h]) = gw.outbound

\* C19: every response of status 502, 504 or 500 that the gateway makes for
\* a failed forward has a JSON body with an error and a reason member.
C19_ErrorAndReason ==
    (gw.pc = "done" /\ gw.failure # "none" /\ gw.response.status \in {500, 502, 504}) =>
        HasErrorAndReason(gw.response.body)

\* C20: when a forward returns its response, completed or failed, the
\* request has been recorded in the metrics.
C20_MetricsRecorded == gw.pc = "done" => request_counts.total >= 1

(***************************************************************************)
(* The /health endpoint and the readers of the health data, under          *)
(* SpecMonitor; the gateway beside the health loop, under SpecAdvisory.    *)
(***************************************************************************)
StatusString(status) ==
    CASE status = "Healthy" -> "healthy"
      [] status = "Degraded" -> "degraded"
      [] status = "Unhealthy" -> "unhealthy"

\* C21: the status string GET /health returns is "healthy", "degraded" or
\* "unhealthy" as the monitor's state is Healthy, Degraded or Unhealthy when
\* the request is served.
C21_HealthStatusString ==
    \A r \in Readers :
        readers[r].op = "health_handler" =>
            readers[r].value = StatusString(readers[r].state)

\* What the routed handler answers, from the request and from what the
\* backend did alone.
Answer(g) ==
    IF g.failure \in HyperErrors THEN Rebuilt(ProxyErrorResponse(g.req.path))
    ELSE IF g.failure \in {"body_read", "buffer_cap"} THEN BufferErrorResponse
    ELSE IF IsLongpoll(g.req.path, TRUE, g.req.query) /\ g.backend.status = 204
    THEN LongpollNoContent
    ELSE Rebuilt(g.backend)

\* C22: whatever the health data say when the request arrives, the routed
\* handler sends the request to the backend, and its response is the one
\* the request and the backend's behaviour give.
C22_ForwardingNotGated ==
    (gw.entry = "routed" /\ gw.pc = "done") =>
        /\ gw.outbound = RoutedOutbound(config, gw.req)
        /\ gw.failure \in HyperErrors \/ gw.backend # NoResponse
        /\ gw.response = Answer(gw)

\* A request that arrived while the backend was marked unavailable was
\* answered with the backend's 200, the state being Unhealthy.
C22_Witness ==
    /\ gw.entry = "routed" /\ gw.pc = "done"
    /\ ~gw.available /\ hs.status = "Unhealthy"
    /\ gw.failure = "none" /\ gw.backend.status = 200 /\ gw.response.status = 200

\* C27: whenever a task reads the health data, available = true comes with
\* state Healthy and no failure counted.
C27_ConsistentSnapshot ==
    [][(readers' # readers) =>
          (hs.available =>
              /\ hs.status = "Healthy"
              /\ hs.couchdb_errors = 0)]_vars

\* C28: in a streak of failed probes, get_status never returns a state
\* better than one it has returned earlier in the streak.
C28_StateOnlyWorsens ==
    \A r \in Readers :
        readers[r].op = "get_status" =>
            Severity(readers[r].value) >= Severity(readers[r].seen_before)

GetAfterSave ==
    /\ repo.prev.op = "save" /\ repo.prev.res = "Ok" /\ repo.prev.input.rev = None
    /\ repo.last.op = "get" /\ repo.last.db = repo.prev.db
    /\ repo.last.id = repo.prev.input.id

\* C25: save_document(db, d) with d.rev empty, followed by
\* get_document(db, d.id), returns a document with d's id and data and the
\* non-empty revision save_document returned (a get that fails in transport
\* aside).
C25_RoundTrip ==
    (GetAfterSave /\ repo.last.status # 0) =>
        /\ repo.last.res = "Ok"
        /\ repo.last.doc.id = repo.prev.input.id
        /\ repo.last.doc.data = repo.prev.input.data
        /\ IsSome(repo.last.doc.rev) /\ repo.last.doc.rev # Some("")
        /\ repo.last.doc.rev = repo.prev.doc.rev

C29_CountersAgree ==
    hs.pc = "sleep" => hs.couchdb_errors = hs.consecutive_failures

\* C30: for every value of the failure counter the interval set after a
\* failed probe is at least one second and at most the maximum, and the
\* power of two is computed without panic.
C30_IntervalInRange ==
    /\ hs.pc # "panicked"
    /\ hist.last = "failed" =>
          (1 <= hs.current_interval /\ hs.current_interval <= MaxCheckIntervalSecs)

\* C31: the loop never ends by itself and no probe stalls it: every probe
\* that ends, by an answer or by its 5 s timeout, hands its result to the
\* status update of the same iteration.
C31_ProbeThenUpdate ==
    [][(hs.pc = "ping" /\ hs'.pc # "ping") => hs'.pc \in {"s_update", "f_update"}]_vars

(***************************************************************************)
(* Sessions (services.rs): the tracking list against the broker's          *)
(* registry, under SpecSessions.                                           *)
(***************************************************************************)
Quiescent == \A s \in STasks : stask[s].pc \in {"idle", "done"}

Tracked == {client_connections[i] : i \in 1..Len(client_connections)}

\* C32: whenever no handler is in flight, client_connections holds exactly
\* the ids registered in the broker, each once, however Connection handlers
\* and disconnections were interleaved.
C32_TrackedMatchesRegistered ==
    Quiescent =>
        /\ Tracked = DOMAIN connections
        /\ Cardinality(Tracked) = Len(client_connections)

\* C33: a Connection handler that returned an error has changed neither the
\* registry nor the tracking list: it made no registration that succeeded
\* (a successful register_client inserts the id, and nothing in the handler
\* removes it).
C33_ConnectionAllOrNothing ==
    \A s \in STasks :
        (Done(s, "Connection") /\ stask[s].result # "Ok") =>
            \A i \in CallsOf(s, "register_client") : stask[s].calls[i].res # "Ok"

(***************************************************************************)
(* Sync handling and its writes (services.rs), under SpecCoordinator.      *)
(***************************************************************************)
\* C34: a Sync handler that returned an error wrote no document: none of its
\* save_document calls succeeded.
C34_ErrorMeansNoWrite ==
    \A s \in STasks :
        (Done(s, "Sync") /\ stask[s].result # "Ok") =>
            \A i \in CallsOf(s, "save_document") : stask[s].calls[i].res # "Ok"

C38_RegistryFrame ==
    [][\A s \in STasks :
          (stask'[s] # stask[s]
              /\ stask'[s].kind \in {"Sync", "Replicate", "Heartbeat", "Error"}) =>
              /\ DOMAIN connections' = DOMAIN connections
              /\ \A c \in DOMAIN connections :
                    connections'[c].owner = connections[c].owner
              /\ client_connections' = client_connections]_vars

\* c1 is registered while one of its Sync messages has been rejected for
\* want of a database name and another has had its document saved.
C38_Witness ==
    \E s, r \in STasks :
        /\ "c1" \in DOMAIN connections
        /\ Done(s, "Sync") /\ stask[s].client = "c1" /\ stask[s].result = "InvalidMessage"
        /\ stask[s].calls = <<>>
        /\ Done(r, "Sync") /\ stask[r].client = "c1"
        /\ \E i \in CallsOf(r, "save_document") : stask[r].calls[i].res = "Ok"

(***************************************************************************)
(* The classes of a request (couchdb.rs, server.rs), under SpecClassifier. *)
(***************************************************************************)
\* The classes a request belongs to by the four definitions: long-poll,
\* changes, bulk-write, and ordinary when none of them applies.
ClassesOf(path, absolute, query) ==
    LET changes == PathContains(path, absolute, "_changes")
        marker == QueryContains(query, "feed=longpoll")
        named == {c \in {"long-poll", "changes", "bulk-write"} :
                     \/ c = "long-poll" /\ changes /\ marker
                     \/ c = "changes" /\ changes /\ ~marker
                     \/ c = "bulk-write" /\ PathContains(path, absolute, "_bulk_docs")}
    IN  IF named = {} THEN {"ordinary"} ELSE named

\* The timeout and the buffer cap a class is given.
TimeoutOfClass(class) ==
    CASE class = "long-poll" -> LongpollTimeoutSecs
      [] class = "changes" -> ChangesTimeoutSecs
      [] OTHER -> StandardTimeoutSecs

BufferOfClass(class) ==
    CASE class = "long-poll" -> LongpollBufferSize
      [] class = "bulk-write" -> BulkDocsBufferSize
      [] OTHER -> DefaultBufferSize

\* C39: every request has exactly one class, decided by its path and query,
\* and the timeout http_forward_request chooses and the buffer cap
\* db_proxy_handler chooses are those of that class, also when the path
\* holds both /_changes and /_bulk_docs.
C39_OneClassification ==
    gw.entry # "none" =>
        LET classes == ClassesOf(gw.req.path, gw.entry = "routed", gw.req.query)
        IN  /\ Cardinality(classes) = 1
            /\ \A class \in classes :
                  /\ gw.entry = "engine" => gw.timeout_secs = TimeoutOfClass(class)
                  /\ gw.entry = "routed" => gw.buffer_size = BufferOfClass(class)

====
